---- MODULE Spec2Model ----
(***************************************************************************)
(* Model of the Indeed job scraper: the page-by-page scraping run with its *)
(* duplicate tracking (src/src/indeed_scraper.py), the repository that     *)
(* stores the listings (src/src/database/repository.py, job_schema.py) and *)
(* the data cleaner (src/src/data_cleaner.py, database/data_validator.py). *)
(*                                                                         *)
(* Every text value is a sequence of one-character strings, so that        *)
(* strip(), lower(), substring tests, joins and regular expressions are    *)
(* computed character by character as the Python code computes them.       *)
(***************************************************************************)
EXTENDS Integers, Sequences, FiniteSets, TLC

(***************************************************************************)
(* Bounds of the model.                                                    *)
(***************************************************************************)
MaxPages == 3
MaxCards == 3
MaxPresented == 3

(***************************************************************************)
(* Values.                                                                 *)
(***************************************************************************)
\* Python's None for a text-valued field.
Null == <<"<None>">>

\* The two scraping runs that can be active in one process.
RunIds == {1, 2}

\* bool(x) of an optional text: None and "" are falsy.
Truthy(x) == x # Null /\ x # <<>>

J1 == <<"j", "1">>
J2 == <<"j", "2">>
Title_a == <<"a">>
Title_a_b == <<"a", "_", "b">>
Company_c == <<"c">>
Company_b_c == <<"b", "_", "c">>

\* What extract_job_data returns for one card: a dictionary with title,
\* company and link always present and job_id present when the link carries
\* a jk= token, or None when the extraction failed.
JobData(id, t, c) == [extracted |-> TRUE, job_id |-> id, title |-> t, company |-> c]
NoJobData == [extracted |-> FALSE, job_id |-> Null, title |-> Null, company |-> Null]

\* The cards the browser can present.
CardChoices ==
    { JobData(J1, Title_a, Company_c),
      JobData(J2, Title_a, Company_c),
      JobData(J1, Title_a_b, Company_c),
      JobData(Null, Title_a_b, Company_c),
      JobData(Null, Title_a, Company_b_c),
      NoJobData }

\* The cards the site can present when two runs are interleaved.
TwoRunCardChoices ==
    {JobData(J1, Title_a, Company_c), JobData(J2, Title_a_b, Company_c),
     JobData(Null, Title_a, Company_c)}

CardsFor(active) == IF Cardinality(active) > 1 THEN TwoRunCardChoices ELSE CardChoices


(***************************************************************************)
(* Text helpers (Python str methods, character by character).              *)
(***************************************************************************)
UpperCase == <<"A","B","C","D","E","F","G","H","I","J","K","L","M",
               "N","O","P","Q","R","S","T","U","V","W","X","Y","Z">>
LowerCase == <<"a","b","c","d","e","f","g","h","i","j","k","l","m",
               "n","o","p","q","r","s","t","u","v","w","x","y","z">>

LowerChar(c) ==
    IF \E i \in 1..26 : UpperCase[i] = c
    THEN LowerCase[CHOOSE i \in 1..26 : UpperCase[i] = c]
    ELSE c

\* str.lower()
Lower(s) == [i \in 1..Len(s) |-> LowerChar(s[i])]

\* sub in s
Contains(s, sub) ==
    \E i \in 0..(Len(s) - Len(sub)) : SubSeq(s, i + 1, i + Len(sub)) = sub

IsSpace(c) == c = " "

\* str.strip()
Strip(s) ==
    LET keep == {i \in 1..Len(s) : ~IsSpace(s[i])}
    IN  IF keep = {} THEN <<>>
        ELSE SubSeq(s, CHOOSE i \in keep : \A j \in keep : i <= j,
                       CHOOSE i \in keep : \A j \in keep : i >= j)

Str_remote == <<"r","e","m","o","t","e">>
Str_hybrid == <<"h","y","b","r","i","d">>
Str_in_person == <<"i","n","-","p","e","r","s","o","n">>
Str_None == <<"N","o","n","e">>

(***************************************************************************)
(* State.                                                                  *)
(***************************************************************************)
VARIABLES
    SHOULD_EXIT,                \* the process-wide exit flag
    runs,                       \* the runs of scrape_indeed_jobs in this process
    pc,                         \* position of each run
    max_pages,                  \* argument of each run
    include_descriptions,       \* argument of each run
    current_page,               \* loop variable of each run
    cards_on_page,              \* cards iterated so far on the current page
    jobs_on_page,               \* process_job_cards: jobs kept on this page
    current_page_seen,          \* process_job_cards: title-company keys of this page
    job_ids,                    \* tracking set of each run
    seen_title_company_pairs,   \* tracking set of each run
    all_jobs,                   \* accumulated listings of each run
    result,                     \* list returned by each run
    status,                     \* "running", "returned" or "error"
    end_reason,                 \* which exit of the loop ended the run
    navigations,                \* calls of navigate_to_next_page of each run
    presented,                  \* history: the cards presented and their classification
    stored,                     \* whether the listings of each run were handed to the repository
    job_dicts,                  \* argument of the last save_job_listings call
    db_job_listings,            \* committed rows of table job_listings
    db_job_descriptions,        \* committed rows of table job_descriptions
    known_ids,                  \* history: the job ids stored before any save
    save_status,                \* "none", "committed" or "raised"
    added_count,                \* save_job_listings: jobs added
    error_count,                \* save_job_listings: jobs in error
    save_log,                   \* history: the result of _process_job_dict per dictionary
    clean_input,                \* the rows of the DataFrame given to clean_dataframe
    location_column,            \* whether that DataFrame has a location column
    clean_status,               \* "input", "cleaned", "validated" or "raised"
    clean_output,               \* the rows of the DataFrame returned
    job_listings_map,           \* batch_scrape_descriptions: the listing of each URL
    max_retries,                \* batch_scrape_descriptions: argument
    batch_pc,                   \* batch_scrape_descriptions: "unused", "for", "while" or "done"
    url_index,                  \* batch_scrape_descriptions: URLs taken by the for loop
    description,                \* batch_scrape_descriptions: local variable
    posted_date,                \* batch_scrape_descriptions: local variable
    attempts,                   \* batch_scrape_descriptions: local variable
    success_count,              \* batch_scrape_descriptions: local variable
    scrape_log,                 \* history: the descriptions scrape_job_description returned, per URL
    browser_pc,                 \* setup_browser: position of the generator and of the with statement
    driver,                     \* setup_browser: local variable, 0 for None
    drivers_created,            \* history: number of uc.Chrome objects constructed
    quit_calls,                 \* history: calls of quit() on each of them
    body_entries,               \* history: times the body of the with statement was entered
    contexts_left               \* with statements still to run

scraperVars == <<SHOULD_EXIT, runs, pc, max_pages, include_descriptions, current_page,
                 cards_on_page, jobs_on_page, current_page_seen, job_ids,
                 seen_title_company_pairs, all_jobs, result, status, end_reason,
                 navigations, presented>>

repoVars == <<stored, job_dicts, db_job_listings, db_job_descriptions, known_ids,
              save_status, added_count, error_count, save_log>>

cleanVars == <<clean_input, location_column, clean_status, clean_output>>

batchVars == <<job_listings_map, max_retries, batch_pc, url_index, description,
               posted_date, attempts, success_count, scrape_log>>

browserVars == <<browser_pc, driver, drivers_created, quit_calls, body_entries,
                 contexts_left>>

vars == <<scraperVars, repoVars, cleanVars, batchVars, browserVars>>

(***************************************************************************)
(* Duplicate resolution.                                                   *)
(***************************************************************************)
\* f"{job_data['title']}_{job_data['company']}"
TitleCompany(job) == job.title \o <<"_">> \o job.company

\* is_duplicate_job without its job_id test.
is_duplicate_job_by_key_only(job_id, title_company, ids, pairs, page_seen) ==
    \/ title_company \in pairs
    \/ title_company \in page_seen

\* is_duplicate_job with the title/company tests made only for a job that
\* has no job_id.
is_duplicate_job_key_as_fallback(job_id, title_company, ids, pairs, page_seen) ==
    IF Truthy(job_id) THEN job_id \in ids
    ELSE title_company \in pairs \/ title_company \in page_seen

is_duplicate_job(job_id, title_company, ids, pairs, page_seen) ==
    \/ Truthy(job_id) /\ job_id \in ids
    \/ title_company \in pairs
    \/ title_company \in page_seen

\* The JobListing built by create_job_listings (idx: position of the card
\* in the presentation history).
JobListing(job) ==
    [job_id |-> job.job_id, title |-> job.title, company |-> job.company, idx |-> job.idx]

RECURSIVE CreateFrom(_, _, _)
CreateFrom(jobs_data, i, acc) ==
    IF i > Len(jobs_data) THEN acc
    ELSE LET job == jobs_data[i]
             title_company == TitleCompany(job)
         IN  IF is_duplicate_job(job.job_id, title_company, acc.job_ids, acc.pairs, {})
             THEN CreateFrom(jobs_data, i + 1, [acc EXCEPT !.skipped = @ \cup {job.idx}])
             ELSE CreateFrom(jobs_data, i + 1,
                     [job_listings |-> Append(acc.job_listings, JobListing(job)),
                      job_ids |-> IF Truthy(job.job_id) THEN acc.job_ids \cup {job.job_id}
                                  ELSE acc.job_ids,
                      pairs |-> acc.pairs \cup {title_company},
                      skipped |-> acc.skipped])

create_job_listings(jobs_data, ids, pairs) ==
    CreateFrom(jobs_data, 1,
               [job_listings |-> <<>>, job_ids |-> ids, pairs |-> pairs, skipped |-> {}])

(***************************************************************************)
(* The scraping run.                                                       *)
(***************************************************************************)
\* Tracking sets kept in one place for every run of the process.
tracking_sets_shared(r) ==
    [job_ids |-> UNION {job_ids[q] : q \in runs},
     seen_title_company_pairs |-> UNION {seen_title_company_pairs[q] : q \in runs}]

\* job_ids = set() and seen_title_company_pairs = set(): the tracking sets
\* are locals of the call.
tracking_sets(r) ==
    [job_ids |-> job_ids[r],
     seen_title_company_pairs |-> seen_title_company_pairs[r]]

TotalPresented == Len(presented[1]) + Len(presented[2])

Finish(r, res, st, why) ==
    /\ pc' = [pc EXCEPT ![r] = "done"]
    /\ result' = [result EXCEPT ![r] = res]
    /\ status' = [status EXCEPT ![r] = st]
    /\ end_reason' = [end_reason EXCEPT ![r] = why]

\* handle_captcha_challenge and the set-up of the collections.
HandleCaptchaChallenge(r) ==
    /\ pc[r] = "captcha"
    /\ \/ /\ SHOULD_EXIT
          /\ Finish(r, <<>>, "returned", "stop")
          /\ UNCHANGED <<SHOULD_EXIT, current_page>>
       \/ /\ ~SHOULD_EXIT                       \* input interrupted
          /\ SHOULD_EXIT' = TRUE
          /\ Finish(r, <<>>, "returned", "stop")
          /\ UNCHANGED current_page
       \/ /\ ~SHOULD_EXIT
          /\ IF max_pages[r] >= 1
             THEN /\ pc' = [pc EXCEPT ![r] = "check_page"]
                  /\ current_page' = [current_page EXCEPT ![r] = 1]
                  /\ UNCHANGED <<result, status, end_reason>>
             ELSE /\ Finish(r, <<>>, "returned", "limit")
                  /\ UNCHANGED current_page
          /\ UNCHANGED SHOULD_EXIT
    /\ UNCHANGED <<runs, max_pages, include_descriptions, cards_on_page, jobs_on_page,
                   current_page_seen, job_ids, seen_title_company_pairs, all_jobs,
                   navigations, presented>>
    /\ UNCHANGED <<repoVars, cleanVars, batchVars, browserVars>>

\* The top of the page loop without its exit check.
CheckPage_without_exit_check(r) ==
    /\ pc[r] = "check_page"
    /\ pc' = [pc EXCEPT ![r] = "find_cards"]
    /\ UNCHANGED <<result, status, end_reason>>
    /\ UNCHANGED <<SHOULD_EXIT, runs, max_pages, include_descriptions, current_page,
                   cards_on_page, jobs_on_page, current_page_seen, job_ids,
                   seen_title_company_pairs, all_jobs, navigations, presented>>
    /\ UNCHANGED <<repoVars, cleanVars, batchVars, browserVars>>

\* Top of the page loop: the exit check before a new page is started.
CheckPage(r) ==
    /\ pc[r] = "check_page"
    /\ IF SHOULD_EXIT
       THEN Finish(r, all_jobs[r], "returned", "stop")
       ELSE /\ pc' = [pc EXCEPT ![r] = "find_cards"]
            /\ UNCHANGED <<result, status, end_reason>>
    /\ UNCHANGED <<SHOULD_EXIT, runs, max_pages, include_descriptions, current_page,
                   cards_on_page, jobs_on_page, current_page_seen, job_ids,
                   seen_title_company_pairs, all_jobs, navigations, presented>>
    /\ UNCHANGED <<repoVars, cleanVars, batchVars, browserVars>>

\* find_job_cards and the entry of process_job_cards.
FindJobCards(r) ==
    /\ pc[r] = "find_cards"
    /\ pc' = [pc EXCEPT ![r] = "check_card"]
    /\ cards_on_page' = [cards_on_page EXCEPT ![r] = 0]
    /\ jobs_on_page' = [jobs_on_page EXCEPT ![r] = <<>>]
    /\ current_page_seen' = [current_page_seen EXCEPT ![r] = {}]
    /\ UNCHANGED <<SHOULD_EXIT, runs, max_pages, include_descriptions, current_page,
                   job_ids, seen_title_company_pairs, all_jobs, result, status,
                   end_reason, navigations, presented>>
    /\ UNCHANGED <<repoVars, cleanVars, batchVars, browserVars>>

\* Head of the card loop: either the page has another card and the exit
\* flag is clear, or the loop is left.
CheckCard(r) ==
    /\ pc[r] = "check_card"
    /\ \/ /\ cards_on_page[r] < MaxCards
          /\ TotalPresented < MaxPresented
          /\ pc' = [pc EXCEPT ![r] = IF SHOULD_EXIT THEN "page_end" ELSE "extract"]
       \/ pc' = [pc EXCEPT ![r] = "page_end"]   \* no card left on the page
    /\ UNCHANGED <<SHOULD_EXIT, runs, max_pages, include_descriptions, current_page,
                   cards_on_page, jobs_on_page, current_page_seen, job_ids,
                   seen_title_company_pairs, all_jobs, result, status, end_reason,
                   navigations, presented>>
    /\ UNCHANGED <<repoVars, cleanVars, batchVars, browserVars>>

\* Body of the card loop: extract_job_data and the duplicate check.
ExtractCard(r) ==
    /\ pc[r] = "extract"
    /\ \E card \in CardsFor(runs) :
         LET idx == Len(presented[r]) + 1
             title_company == TitleCompany(card)
         IN  IF ~card.extracted
             THEN /\ presented' = [presented EXCEPT ![r] =
                                      Append(@, [card |-> card, cls |-> "invalid"])]
                  /\ UNCHANGED <<jobs_on_page, current_page_seen>>
             ELSE IF is_duplicate_job(card.job_id, title_company, tracking_sets(r).job_ids,
                                      tracking_sets(r).seen_title_company_pairs,
                                      current_page_seen[r])
             THEN /\ presented' = [presented EXCEPT ![r] =
                                      Append(@, [card |-> card, cls |-> "duplicate"])]
                  /\ UNCHANGED <<jobs_on_page, current_page_seen>>
             ELSE /\ presented' = [presented EXCEPT ![r] =
                                      Append(@, [card |-> card, cls |-> "pending"])]
                  /\ current_page_seen' = [current_page_seen EXCEPT ![r] =
                                              @ \cup {title_company}]
                  /\ jobs_on_page' = [jobs_on_page EXCEPT ![r] =
                                         Append(@, [job_id |-> card.job_id,
                                                    title |-> card.title,
                                                    company |-> card.company,
                                                    idx |-> idx])]
    /\ cards_on_page' = [cards_on_page EXCEPT ![r] = @ + 1]
    /\ pc' = [pc EXCEPT ![r] = "check_card"]
    /\ UNCHANGED <<SHOULD_EXIT, runs, max_pages, include_descriptions, current_page,
                   job_ids, seen_title_company_pairs, all_jobs, result, status,
                   end_reason, navigations>>
    /\ UNCHANGED <<repoVars, cleanVars, batchVars, browserVars>>

\* The classification history after create_job_listings has run over the
\* jobs kept on the page.
Classified(hist, skipped) ==
    [i \in 1..Len(hist) |->
        IF hist[i].cls = "pending"
        THEN [hist[i] EXCEPT !.cls = IF i \in skipped THEN "duplicate" ELSE "new"]
        ELSE hist[i]]

\* The break taken on a stop request as well, before create_job_listings.
NoJobsOnPage_or_exit(r) == jobs_on_page[r] = <<>> \/ SHOULD_EXIT

\* if not jobs_on_page: break
NoJobsOnPage(r) == jobs_on_page[r] = <<>>

\* all_jobs.extend with the new listings put in front.
extend_in_front(all, job_listings) == job_listings \o all

\* all_jobs.extend(job_listings)
extend(all, job_listings) == all \o job_listings

\* process_description_batch hands the list of URLs to batch_scrape_descriptions,
\* which calls .keys() on it: AttributeError whenever there is a URL to scrape.
DescriptionBatchRaises(r, job_listings) ==
    include_descriptions[r] /\ job_listings # <<>>

\* After the card loop: the empty-page exit, create_job_listings, the
\* description batch, all_jobs.extend and the exit checks.
PageEnd(r) ==
    /\ pc[r] = "page_end"
    /\ IF NoJobsOnPage(r)
       THEN /\ Finish(r, all_jobs[r], "returned", "no_jobs")
            /\ UNCHANGED <<job_ids, seen_title_company_pairs, all_jobs, presented>>
       ELSE LET made == create_job_listings(jobs_on_page[r], tracking_sets(r).job_ids,
                                            tracking_sets(r).seen_title_company_pairs)
            IN  /\ job_ids' = [job_ids EXCEPT ![r] = made.job_ids]
                /\ seen_title_company_pairs' =
                       [seen_title_company_pairs EXCEPT ![r] = made.pairs]
                /\ presented' = [presented EXCEPT ![r] = Classified(@, made.skipped)]
                /\ IF DescriptionBatchRaises(r, made.job_listings)
                   THEN /\ Finish(r, <<>>, "error", "description_error")
                        /\ UNCHANGED all_jobs
                   ELSE /\ all_jobs' = [all_jobs EXCEPT ![r] = extend(@, made.job_listings)]
                        /\ IF SHOULD_EXIT
                           THEN Finish(r, all_jobs'[r], "returned", "stop")
                           ELSE IF current_page[r] >= max_pages[r]
                           THEN Finish(r, all_jobs'[r], "returned", "limit")
                           ELSE /\ pc' = [pc EXCEPT ![r] = "navigate"]
                                /\ UNCHANGED <<result, status, end_reason>>
    /\ UNCHANGED <<SHOULD_EXIT, runs, max_pages, include_descriptions, current_page,
                   cards_on_page, jobs_on_page, current_page_seen, navigations>>
    /\ UNCHANGED <<repoVars, cleanVars, batchVars, browserVars>>

\* navigate_to_next_page returns True or False.
NavigateToNextPage(r) ==
    /\ pc[r] = "navigate"
    /\ navigations' = [navigations EXCEPT ![r] = @ + 1]
    /\ \/ /\ pc' = [pc EXCEPT ![r] = "check_page"]
          /\ current_page' = [current_page EXCEPT ![r] = @ + 1]
          /\ UNCHANGED <<result, status, end_reason>>
       \/ /\ Finish(r, all_jobs[r], "returned", "nav_failed")
          /\ UNCHANGED current_page
    /\ UNCHANGED <<SHOULD_EXIT, runs, max_pages, include_descriptions, cards_on_page,
                   jobs_on_page, current_page_seen, job_ids, seen_title_company_pairs,
                   all_jobs, presented>>
    /\ UNCHANGED <<repoVars, cleanVars, batchVars, browserVars>>

\* A browser call (driver.get, find_job_cards, navigate_to_next_page) raises
\* an exception that is not handled locally: except Exception: return [].
BrowserRaises(r) ==
    /\ pc[r] \in {"captcha", "find_cards", "navigate"}
    /\ Finish(r, <<>>, "error", "browser_error")
    /\ navigations' = [navigations EXCEPT ![r] = IF pc[r] = "navigate" THEN @ + 1 ELSE @]
    /\ UNCHANGED <<SHOULD_EXIT, runs, max_pages, include_descriptions, current_page,
                   cards_on_page, jobs_on_page, current_page_seen, job_ids,
                   seen_title_company_pairs, all_jobs, presented>>
    /\ UNCHANGED <<repoVars, cleanVars, batchVars, browserVars>>

\* handle_exit_signal: SIGINT or SIGTERM arrives.
HandleExitSignal ==
    /\ ~SHOULD_EXIT
    /\ \E r \in runs : pc[r] # "done"
    /\ SHOULD_EXIT' = TRUE
    /\ UNCHANGED <<runs, pc, max_pages, include_descriptions, current_page,
                   cards_on_page, jobs_on_page, current_page_seen, job_ids,
                   seen_title_company_pairs, all_jobs, result, status, end_reason,
                   navigations, presented>>
    /\ UNCHANGED <<repoVars, cleanVars, batchVars, browserVars>>


(***************************************************************************)
(* The repository: JobListing.from_dict and save_job_listings.             *)
(***************************************************************************)
MAX_TITLE_LENGTH == 255
MAX_COMPANY_LENGTH == 255
MAX_JOB_ID_LENGTH == 100

\* A key that is not in the dictionary.
Absent == <<"<absent>">>

JobDict(id, t, c, d) == [job_id |-> id, title |-> t, company |-> c, description |-> d]

\* JobListing.to_dict of the scraper's dataclass: only the non-None fields.
\* The description is None unless the description batch filled it in.
to_dict(listing) ==
    JobDict(IF listing.job_id = Null THEN Absent ELSE listing.job_id,
            listing.title, listing.company, Absent)

_validate_string_field(value, max_length) ==
    IF value = Null THEN Null
    ELSE LET v == Strip(value)
         IN  IF v = <<>> THEN Null
             ELSE IF Len(v) > max_length THEN SubSeq(v, 1, max_length)
             ELSE v

\* Validation of one field by from_dict: a key that is absent stays absent.
Validated(data, field, max_length) ==
    IF data[field] = Absent THEN Absent
    ELSE _validate_string_field(data[field], max_length)

\* JobListing.from_dict: the validated row, or the required fields whose
\* absence makes it raise ValidationError.
from_dict(data) ==
    LET validated == [job_id |-> Validated(data, "job_id", MAX_JOB_ID_LENGTH),
                      title |-> Validated(data, "title", MAX_TITLE_LENGTH),
                      company |-> Validated(data, "company", MAX_COMPANY_LENGTH)]
        validation_errors ==
            {f \in {"job_id", "title", "company"} : validated[f] \in {Absent, Null}}
    IN  [raised |-> validation_errors # {},
         validation_errors |-> validation_errors,
         job |-> validated]

\* session.query(JobListing).filter_by(job_id=...).first(): the session does
\* not autoflush, so only committed rows are found.
ExistingJob(db, job_id) == \E row \in db : row.job_id = job_id

\* _process_job_dict: (success, message), the fields the message names, and
\* the objects added to the session.
_process_job_dict(db, job_dict) ==
    IF ~Truthy(job_dict.job_id) \/ job_dict.job_id = Absent
    THEN [success |-> FALSE, message |-> "Missing job_id", names |-> {"job_id"},
          jobs |-> <<>>, descriptions |-> <<>>]
    ELSE IF ExistingJob(db, job_dict.job_id)
    THEN [success |-> FALSE, message |-> "Job already exists", names |-> {},
          jobs |-> <<>>, descriptions |-> <<>>]
    ELSE LET made == from_dict(job_dict)
         IN  IF made.raised
             THEN [success |-> FALSE, message |-> "Validation error",
                   names |-> made.validation_errors,
                   jobs |-> <<>>, descriptions |-> <<>>]
             ELSE [success |-> TRUE, message |-> "", names |-> {},
                   jobs |-> <<made.job>>,
                   descriptions |->
                       IF Truthy(job_dict.description) /\ job_dict.description # Absent
                       THEN <<[job_id |-> job_dict.job_id,
                               description |-> job_dict.description]>>
                       ELSE <<>>]

RECURSIVE ProcessFrom(_, _, _, _)
ProcessFrom(db, dicts, i, acc) ==
    IF i > Len(dicts) THEN acc
    ELSE LET res == _process_job_dict(db, dicts[i])
         IN  ProcessFrom(db, dicts, i + 1,
                 [jobs |-> acc.jobs \o res.jobs,
                  descriptions |-> acc.descriptions \o res.descriptions,
                  added_count |-> acc.added_count + (IF res.success THEN 1 ELSE 0),
                  error_count |-> acc.error_count +
                      (IF ~res.success /\ res.message # "Job already exists" THEN 1 ELSE 0),
                  log |-> Append(acc.log, [success |-> res.success,
                                           message |-> res.message,
                                           names |-> res.names])])

\* The unique index on job_id of a table: the INSERTs of a commit succeed
\* only if no inserted id repeats a committed or an inserted one.
UniqueOk(rows, pending) ==
    /\ \A i \in 1..Len(pending) : \A row \in rows : row.job_id # pending[i].job_id
    /\ \A i, j \in 1..Len(pending) : i # j => pending[i].job_id # pending[j].job_id

Range(seq) == {seq[i] : i \in 1..Len(seq)}

\* save_job_listings inside session_scope: the loop over the dictionaries,
\* then commit, or rollback and re-raise when the commit fails.
SaveJobListings(dicts) ==
    LET done == ProcessFrom(db_job_listings, dicts, 1,
                    [jobs |-> <<>>, descriptions |-> <<>>, added_count |-> 0,
                     error_count |-> 0, log |-> <<>>])
        commit_ok == /\ UniqueOk(db_job_listings, done.jobs)
                     /\ UniqueOk(db_job_descriptions, done.descriptions)
    IN  /\ job_dicts' = dicts
        /\ save_log' = done.log
        /\ added_count' = done.added_count
        /\ error_count' = done.error_count
        /\ IF commit_ok
           THEN /\ db_job_listings' = db_job_listings \cup Range(done.jobs)
                /\ db_job_descriptions' = db_job_descriptions \cup Range(done.descriptions)
                /\ save_status' = "committed"
           ELSE /\ save_status' = "raised"
                /\ UNCHANGED <<db_job_listings, db_job_descriptions>>
        /\ UNCHANGED known_ids

\* The listings a run returned are handed to the repository.
StoreRun(r) ==
    /\ pc[r] = "done"
    /\ ~stored[r]
    /\ stored' = [stored EXCEPT ![r] = TRUE]
    /\ SaveJobListings([i \in 1..Len(result[r]) |-> to_dict(result[r][i])])
    /\ UNCHANGED <<scraperVars, cleanVars, batchVars, browserVars>>


(***************************************************************************)
(* DBJobListingRepository.save_job_listings                                *)
(* (indeed_scraper/repository/db_repository.py).                           *)
(***************************************************************************)
\* batch_size = 100
batch_size == 100

\* A JobListing handed to the repository (None is Null).
Listing(id, t, c, d) == [job_id |-> id, title |-> t, company |-> c, description |-> d]

\* check_job_ids_exist: the ids among job_ids that a committed row carries.
check_job_ids_exist(db, ids) == {row.job_id : row \in {x \in db : x.job_id \in ids}}

\* Every listing of the input counted as new.
is_new_listing_always(job_id, existing_ids) == TRUE

\* if not job.job_id or job.job_id not in existing_ids: new_count += 1
is_new_listing(job_id, existing_ids) ==
    ~Truthy(job_id) \/ job_id \notin existing_ids

\* _model_to_db_entity: the job_listings entity and, when the listing has a
\* description and a job_id, the job_descriptions entity.
_model_to_db_entity(job_listing) ==
    [db_job |-> [job_id |-> job_listing.job_id, title |-> job_listing.title,
                 company |-> job_listing.company],
     db_description |->
         IF Truthy(job_listing.description) /\ Truthy(job_listing.job_id)
         THEN <<[job_id |-> job_listing.job_id,
                 description |-> job_listing.description]>>
         ELSE <<>>]

\* update(DBJobListing).where(job_id == ...).values(...)
UpdateRows(db, db_job) ==
    {IF row.job_id = db_job.job_id THEN db_job ELSE row : row \in db}

\* The loop body over the listings lo..hi of one batch.  acc.db and
\* acc.descs are the tables as the transaction sees them, acc.adds and
\* acc.desc_adds the objects added to the session.
RECURSIVE ProcessBatch(_, _, _, _, _)
ProcessBatch(job_listings, existing_ids, lo, hi, acc) ==
    IF lo > hi THEN acc
    ELSE LET job == job_listings[lo]
             ent == _model_to_db_entity(job)
             in_db == ent.db_job.job_id \in existing_ids
             has_desc == ent.db_description # <<>>
             existing_desc == has_desc /\ ExistingJob(acc.descs, job.job_id)
         IN  ProcessBatch(job_listings, existing_ids, lo + 1, hi,
                 [new_count |-> acc.new_count +
                      (IF is_new_listing(job.job_id, existing_ids) THEN 1 ELSE 0),
                  db |-> IF in_db THEN UpdateRows(acc.db, ent.db_job) ELSE acc.db,
                  adds |-> IF in_db THEN acc.adds ELSE Append(acc.adds, ent.db_job),
                  descs |-> IF existing_desc
                            THEN UpdateRows(acc.descs, ent.db_description[1])
                            ELSE acc.descs,
                  desc_adds |-> IF has_desc /\ ~existing_desc
                                THEN acc.desc_adds \o ent.db_description
                                ELSE acc.desc_adds])

\* nullable=False on job_id.
NotNullOk(pending) == \A i \in 1..Len(pending) : pending[i].job_id # Null

\* The batches in turn, each committed on its own; a failing commit is
\* rolled back and the exception leaves the function.
RECURSIVE SaveBatches(_, _, _, _)
SaveBatches(job_listings, existing_ids, i, acc) ==
    IF i > Len(job_listings) THEN acc
    ELSE LET hi == IF i + batch_size - 1 < Len(job_listings)
                   THEN i + batch_size - 1 ELSE Len(job_listings)
             b == ProcessBatch(job_listings, existing_ids, i, hi,
                      [new_count |-> acc.new_count, db |-> acc.db, adds |-> <<>>,
                       descs |-> acc.descs, desc_adds |-> <<>>])
             commit_ok == /\ NotNullOk(b.adds)
                          /\ UniqueOk(b.db, b.adds)
                          /\ UniqueOk(b.descs, b.desc_adds)
         IN  IF commit_ok
             THEN SaveBatches(job_listings, existing_ids, hi + 1,
                      [new_count |-> b.new_count, db |-> b.db \cup Range(b.adds),
                       descs |-> b.descs \cup Range(b.desc_adds), raised |-> FALSE])
             ELSE [acc EXCEPT !.raised = TRUE]

\* DBJobListingRepository.save_job_listings: returns new_count or raises.
DBSaveJobListings(job_listings) ==
    LET ids == {job_listings[i].job_id :
                   i \in {k \in 1..Len(job_listings) : Truthy(job_listings[k].job_id)}}
        existing_ids == check_job_ids_exist(db_job_listings, ids)
        out == SaveBatches(job_listings, existing_ids, 1,
                   [new_count |-> 0, db |-> db_job_listings,
                    descs |-> db_job_descriptions, raised |-> FALSE])
    IN  /\ db_job_listings' = out.db
        /\ db_job_descriptions' = out.descs
        /\ IF out.raised
           THEN save_status' = "raised" /\ UNCHANGED added_count
           ELSE save_status' = "returned" /\ added_count' = out.new_count
        /\ UNCHANGED <<job_dicts, known_ids, error_count, save_log>>

(***************************************************************************)
(* The data cleaner: work setting and salary.                              *)
(***************************************************************************)
MAX_WORK_SETTING_LENGTH == 100

\* MAX_FLOAT_VALUE = 9999999.99, in hundredths.
MAX_FLOAT_VALUE == 999999999

\* A missing number (None / NaN) in a numeric column: a value outside the
\* range of the amounts.  Amounts are counted in hundredths.
NoNumber == -2147483647

Digits == <<"0","1","2","3","4","5","6","7","8","9">>
IsDigit(c) == \E i \in 1..10 : Digits[i] = c
DigitValue(c) == (CHOOSE i \in 1..10 : Digits[i] = c) - 1

\* [\d,]
IsDigitOrComma(c) == IsDigit(c) \/ c = ","

\* The end (exclusive) of the longest run of [\d,] or of \d starting at p.
RECURSIVE DigitOrCommaRun(_, _)
DigitOrCommaRun(s, p) ==
    IF p <= Len(s) /\ IsDigitOrComma(s[p]) THEN DigitOrCommaRun(s, p + 1) ELSE p

RECURSIVE DigitRun(_, _)
DigitRun(s, p) ==
    IF p <= Len(s) /\ IsDigit(s[p]) THEN DigitRun(s, p + 1) ELSE p

\* re.findall(r'\$?([\d,]+\.?\d*)', s) from position p on: the groups of the
\* successive leftmost matches.
RECURSIVE FindAmounts(_, _)
FindAmounts(s, p) ==
    IF p > Len(s) THEN <<>>
    ELSE LET q == IF s[p] = "$" /\ p + 1 <= Len(s) /\ IsDigitOrComma(s[p + 1])
                  THEN p + 1 ELSE p
         IN  IF ~IsDigitOrComma(s[q]) THEN FindAmounts(s, p + 1)
             ELSE LET e1 == DigitOrCommaRun(s, q)
                      e2 == IF e1 <= Len(s) /\ s[e1] = "." THEN e1 + 1 ELSE e1
                      e3 == DigitRun(s, e2)
                  IN  <<SubSeq(s, q, e3 - 1)>> \o FindAmounts(s, e3)

\* amt.replace(',', '')
RemoveCommas(amt) == SelectSeq(amt, LAMBDA c : c # ",")

\* float(x) raises ValueError on a text without any digit ("" or ".").
FloatRaises(x) == \A i \in 1..Len(x) : ~IsDigit(x[i])

RECURSIVE IntOf(_)
IntOf(ds) ==
    IF ds = <<>> THEN 0
    ELSE IntOf(SubSeq(ds, 1, Len(ds) - 1)) * 10 + DigitValue(ds[Len(ds)])

\* float(x) in hundredths, for x = digits [ "." digits ] with at most two
\* decimals.
FloatOf(x) ==
    LET dot == IF \E i \in 1..Len(x) : x[i] = "."
               THEN CHOOSE i \in 1..Len(x) : x[i] = "." ELSE Len(x) + 1
        frac == SubSeq(x, dot + 1, Len(x))
        frac2 == IF Len(frac) = 0 THEN <<"0", "0">>
                 ELSE IF Len(frac) = 1 THEN frac \o <<"0">>
                 ELSE SubSeq(frac, 1, 2)
    IN  IntOf(SubSeq(x, 1, dot - 1)) * 100 + IntOf(frac2)

\* The last amount of the text taken for the smallest one.
LastOf(xs) == xs[Len(xs)]

RECURSIVE MinOf(_)
MinOf(xs) ==
    IF Len(xs) = 1 THEN xs[1]
    ELSE LET m == MinOf(Tail(xs)) IN IF xs[1] <= m THEN xs[1] ELSE m

RECURSIVE MaxOf(_)
MaxOf(xs) ==
    IF Len(xs) = 1 THEN xs[1]
    ELSE LET m == MaxOf(Tail(xs)) IN IF xs[1] >= m THEN xs[1] ELSE m

Str_hour == <<"h","o","u","r">>
Str_week == <<"w","e","e","k">>
Str_month == <<"m","o","n","t","h">>

NoSalary == [raised |-> FALSE, salary_min |-> NoNumber, salary_max |-> NoNumber,
             salary_period |-> Null]

\* parse_salary: the parsed fields, or raised when float() raises ValueError.
parse_salary(salary_text) ==
    IF ~Truthy(salary_text) THEN NoSalary
    ELSE LET found == FindAmounts(salary_text, 1)
             texts == [i \in 1..Len(found) |-> RemoveCommas(found[i])]
         IN  IF found = <<>> THEN NoSalary
             ELSE IF \E i \in 1..Len(texts) : FloatRaises(texts[i])
             THEN [NoSalary EXCEPT !.raised = TRUE]
             ELSE LET amounts == [i \in 1..Len(texts) |-> FloatOf(texts[i])]
                      text_lower == Lower(salary_text)
                  IN  [raised |-> FALSE,
                       salary_min |-> MinOf(amounts),
                       salary_max |-> MaxOf(amounts),
                       salary_period |->
                           IF Contains(text_lower, Str_hour) THEN <<"h","o","u","r","l","y">>
                           ELSE IF Contains(text_lower, Str_week) THEN <<"w","e","e","k","l","y">>
                           ELSE IF Contains(text_lower, Str_month)
                                THEN <<"m","o","n","t","h","l","y">>
                           ELSE <<"y","e","a","r","l","y">>]

extract_work_setting(text) ==
    IF ~Truthy(text) THEN Null
    ELSE IF Contains(Lower(text), Str_remote) THEN Str_remote
    ELSE IF Contains(Lower(text), Str_hybrid) THEN Str_hybrid
    ELSE Null

\* Series.astype(str): None becomes the text "None".
AsStr(x) == IF x = Null THEN Str_None ELSE x

\* .str.contains(pattern, case=False, na=False)
ContainsNoCase(x, pattern) == Contains(Lower(AsStr(x)), pattern)

\* The last masked assignment of clean_work_setting: the values set to
\* in-person.
non_remote_hybrid(work_setting) ==
    /\ work_setting \notin {Str_remote, Str_hybrid}
    /\ work_setting # Null
    /\ work_setting # <<>>

\* clean_work_setting on one row of the DataFrame (the masked column
\* assignments act on each row independently).
clean_work_setting(work_setting, location) ==
    LET from_location ==
            IF (work_setting = Null \/ work_setting = <<>>) /\ location # Null
               /\ extract_work_setting(location) # Null
            THEN extract_work_setting(location) ELSE work_setting
        remote_rule ==
            IF ContainsNoCase(from_location, Str_remote) THEN Str_remote ELSE from_location
        hybrid_rule ==
            IF ContainsNoCase(remote_rule, Str_hybrid) THEN Str_hybrid ELSE remote_rule
        remote_in_location ==
            IF ContainsNoCase(location, Str_remote) THEN Str_remote ELSE hybrid_rule
        in_person ==
            IF non_remote_hybrid(remote_in_location) THEN Str_in_person
            ELSE remote_in_location
    IN  IF in_person = Null THEN Str_in_person ELSE in_person     \* fillna

\* The multiplier with an hourly year of 50 weeks.
Multiplier_50_weeks(period) ==
    IF period = <<"h","o","u","r","l","y">> THEN 40 * 50
    ELSE IF period = <<"w","e","e","k","l","y">> THEN 52
    ELSE IF period = <<"m","o","n","t","h","l","y">> THEN 12
    ELSE 1

\* conversions of standardize_salary: the multiplier to a yearly amount.
Multiplier(period) ==
    IF period = <<"h","o","u","r","l","y">> THEN 40 * 52
    ELSE IF period = <<"w","e","e","k","l","y">> THEN 52
    ELSE IF period = <<"m","o","n","t","h","l","y">> THEN 12
    ELSE 1

\* standardize_salary: the yearly bounds of a parsed salary.
standardize_salary(parsed_salary) ==
    IF parsed_salary.salary_min = NoNumber \/ parsed_salary.salary_period = Null
    THEN [salary_min_yearly |-> NoNumber, salary_max_yearly |-> NoNumber]
    ELSE [salary_min_yearly |-> parsed_salary.salary_min * Multiplier(parsed_salary.salary_period),
          salary_max_yearly |->
              IF parsed_salary.salary_max # NoNumber
              THEN parsed_salary.salary_max * Multiplier(parsed_salary.salary_period)
              ELSE NoNumber]

\* The mean of (x or 0) taken without the pd.notna guard.
midpoint_without_guard(min_yearly, max_yearly) ==
    ((IF min_yearly = NoNumber THEN 0 ELSE min_yearly)
     + (IF max_yearly = NoNumber THEN 0 ELSE max_yearly)) \div 2

\* The salary_midpoint_yearly column of clean_salary_data.  The mean of two
\* amounts in hundredths is taken as a whole number of hundredths.
salary_midpoint_yearly(min_yearly, max_yearly) ==
    IF min_yearly # NoNumber /\ max_yearly # NoNumber
    THEN (min_yearly + max_yearly) \div 2
    ELSE NoNumber

(***************************************************************************)
(* The data cleaner: location (clean_location, parse_location).            *)
(***************************************************************************)
Str_in == <<"i","n">>
Str_location == <<"l","o","c","a","t","i","o","n">>
Str_United_States == <<"U","n","i","t","e","d"," ","S","t","a","t","e","s">>

\* s[p:]
From(s, p) == SubSeq(s, p, Len(s))

\* The text w stands in s at position p, letter case ignored.
AtNoCase(s, p, w) ==
    p >= 1 /\ p + Len(w) - 1 <= Len(s) /\ Lower(SubSeq(s, p, p + Len(w) - 1)) = w

\* \w
IsWordChar(c) == IsDigit(c) \/ c = "_" \/ \E i \in 1..26 : LowerCase[i] = LowerChar(c)

\* [A-Z]
IsUpper(c) == \E i \in 1..26 : UpperCase[i] = c

\* The end (exclusive) of the longest run of \s starting at p.
RECURSIVE SpaceRun(_, _)
SpaceRun(s, p) == IF p <= Len(s) /\ IsSpace(s[p]) THEN SpaceRun(s, p + 1) ELSE p

\* The least element of a non-empty set of positions.
Least(S) == CHOOSE i \in S : \A j \in S : i <= j

\* re.match(r'^remote\b', location, re.IGNORECASE)
StartsWithRemote(s) ==
    AtNoCase(s, 1, Str_remote) /\ (Len(s) = 6 \/ ~IsWordChar(s[7]))

\* re.search(r'remote\s+in\s+(.*)', location, re.IGNORECASE): the positions
\* where the pattern matches.
RemoteInAt(s) ==
    {p \in 1..Len(s) :
        /\ AtNoCase(s, p, Str_remote)
        /\ SpaceRun(s, p + 6) > p + 6
        /\ AtNoCase(s, SpaceRun(s, p + 6), Str_in)
        /\ SpaceRun(s, SpaceRun(s, p + 6) + 2) > SpaceRun(s, p + 6) + 2}

\* re.search(r'\sin\s+(.*)', location, re.IGNORECASE): the positions where
\* the pattern matches.
InAt(s) ==
    {p \in 1..Len(s) :
        /\ IsSpace(s[p])
        /\ AtNoCase(s, p + 1, Str_in)
        /\ SpaceRun(s, p + 3) > p + 3}

\* re.sub(r'\(.*?\)', '', s)
RECURSIVE RemoveParentheticals(_)
RemoveParentheticals(s) ==
    LET opens == {i \in 1..Len(s) : s[i] = "(" /\ \E j \in (i + 1)..Len(s) : s[j] = ")"}
    IN  IF opens = {} THEN s
        ELSE LET o == Least(opens)
                 c == Least({j \in (o + 1)..Len(s) : s[j] = ")"})
             IN  SubSeq(s, 1, o - 1) \o RemoveParentheticals(From(s, c + 1))

\* The end (exclusive) of a match of \+\d+\s+locations? at p, or 0.
PlusLocationsEnd(s, p) ==
    IF p <= Len(s) /\ s[p] = "+" /\ DigitRun(s, p + 1) > p + 1
       /\ SpaceRun(s, DigitRun(s, p + 1)) > DigitRun(s, p + 1)
       /\ AtNoCase(s, SpaceRun(s, DigitRun(s, p + 1)), Str_location)
    THEN LET e == SpaceRun(s, DigitRun(s, p + 1)) + 8
         IN  IF e <= Len(s) /\ LowerChar(s[e]) = "s" THEN e + 1 ELSE e
    ELSE 0

\* re.sub(r'\+\d+\s+locations?', '', s, flags=re.IGNORECASE) from p on.
RECURSIVE RemovePlusLocations(_, _)
RemovePlusLocations(s, p) ==
    IF p > Len(s) THEN <<>>
    ELSE IF PlusLocationsEnd(s, p) > 0 THEN RemovePlusLocations(s, PlusLocationsEnd(s, p))
    ELSE <<s[p]>> \o RemovePlusLocations(s, p + 1)

\* re.sub(r',\s*United States$', '', s)
RemoveUnitedStates(s) ==
    LET at == {p \in 1..Len(s) :
                  /\ s[p] = ","
                  /\ From(s, SpaceRun(s, p + 1)) = Str_United_States}
    IN  IF at = {} THEN s ELSE SubSeq(s, 1, Least(at) - 1)

\* re.sub(r'\s+', ' ', s) from p on.
RECURSIVE CollapseSpaces(_, _)
CollapseSpaces(s, p) ==
    IF p > Len(s) THEN <<>>
    ELSE IF IsSpace(s[p]) THEN <<" ">> \o CollapseSpaces(s, SpaceRun(s, p))
    ELSE <<s[p]>> \o CollapseSpaces(s, p + 1)

\* The end (exclusive) of \d{5}(?:-\d{4})? at p, or 0.
ZipEnd(s, p) ==
    IF p + 4 <= Len(s) /\ \A i \in p..(p + 4) : IsDigit(s[i])
    THEN IF p + 9 <= Len(s) /\ s[p + 5] = "-" /\ \A i \in (p + 6)..(p + 9) : IsDigit(s[i])
         THEN p + 10 ELSE p + 5
    ELSE 0

\* The commas of s at which ([^,]+),\s*([A-Z]{2}) matches: a comma with a
\* character other than a comma before it and, after optional whitespace,
\* two capital letters.
CityStateAt(s) ==
    {c \in 2..Len(s) :
        /\ s[c] = ","
        /\ s[c - 1] # ","
        /\ SpaceRun(s, c + 1) + 1 <= Len(s)
        /\ IsUpper(s[SpaceRun(s, c + 1)])
        /\ IsUpper(s[SpaceRun(s, c + 1) + 1])}

\* re.search(r'([^,]+),\s*([A-Z]{2})(?:\s+(\d{5}(?:-\d{4})?))?', s): the
\* three groups of the leftmost match, stripped; zip is Null when the group
\* did not take part.
CityStateZip(s) ==
    IF CityStateAt(s) = {} THEN [matched |-> FALSE, city |-> Null, state |-> Null, zip |-> Null]
    ELSE LET c == Least(CityStateAt(s))
             before == {i \in 1..(c - 1) : s[i] = ","}
             start == IF before = {} THEN 1
                      ELSE (CHOOSE i \in before : \A j \in before : i >= j) + 1
             st == SpaceRun(s, c + 1)
             z == SpaceRun(s, st + 2)
         IN  [matched |-> TRUE,
              city |-> Strip(SubSeq(s, start, c - 1)),
              state |-> SubSeq(s, st, st + 1),
              zip |-> IF z > st + 2 /\ ZipEnd(s, z) > 0
                      THEN SubSeq(s, z, ZipEnd(s, z) - 1) ELSE Null]

\* parse_location: the city, state and zip components.
parse_location(location) ==
    IF ~Truthy(location) THEN [city |-> Null, state |-> Null, zip |-> Null]
    ELSE LET m == CityStateZip(location)
         IN  [city |-> m.city, state |-> m.state, zip |-> m.zip]

\* clean_location after the test for a remote position.
CleanPlace(location) ==
    LET kept == IF InAt(location) # {}
                THEN Strip(From(location, SpaceRun(location, Least(InAt(location)) + 3)))
                ELSE location
        cleaned == Strip(CollapseSpaces(RemoveUnitedStates(
                       RemovePlusLocations(RemoveParentheticals(kept), 1)), 1))
        m == CityStateZip(cleaned)
    IN  IF m.matched
        THEN m.city \o <<",", " ">> \o m.state
                 \o (IF m.zip # Null THEN <<" ">> \o m.zip ELSE <<>>)
        ELSE cleaned

\* clean_location
clean_location(location) ==
    IF ~Truthy(location) THEN Null
    ELSE IF StartsWithRemote(location)
    THEN (IF RemoteInAt(location) # {}
          THEN LET p == Least(RemoteInAt(location))
               IN  Strip(From(location, SpaceRun(location, SpaceRun(location, p + 6) + 2)))
          ELSE <<"R","e","m","o","t","e">>)
    ELSE CleanPlace(location)

\* clean_dataframe on one row: the work setting is cleaned only when the
\* DataFrame has a location column; the salary text is parsed.
CleanRow(row, has_location) ==
    LET parsed == parse_salary(row.salary)
        standardized == standardize_salary(parsed)
    IN  [work_setting |-> IF has_location
                          THEN clean_work_setting(row.work_setting, row.location)
                          ELSE row.work_setting,
         salary_min |-> parsed.salary_min,
         salary_max |-> parsed.salary_max,
         salary_period |-> parsed.salary_period,
         salary_min_yearly |-> standardized.salary_min_yearly,
         salary_max_yearly |-> standardized.salary_max_yearly,
         salary_midpoint_yearly |->
             salary_midpoint_yearly(standardized.salary_min_yearly,
                                    standardized.salary_max_yearly),
         date_scraped |-> row.date_scraped,
         city |-> IF has_location
                  THEN parse_location(clean_location(row.location)).city ELSE Absent,
         state |-> IF has_location
                   THEN parse_location(clean_location(row.location)).state ELSE Absent,
         zip |-> IF has_location
                 THEN parse_location(clean_location(row.location)).zip ELSE Absent]

\* An exception raised by Series.apply(parse_salary) on any row leaves
\* clean_dataframe as a whole.
CleanRaises(rows) == \E i \in 1..Len(rows) : parse_salary(rows[i].salary).raised

\* clean_dataframe.
CleanDataframe ==
    /\ clean_status = "input"
    /\ IF CleanRaises(clean_input)
       THEN /\ clean_status' = "raised"
            /\ UNCHANGED clean_output
       ELSE /\ clean_status' = "cleaned"
            /\ clean_output' = [i \in 1..Len(clean_input) |->
                                   CleanRow(clean_input[i], location_column)]
    /\ UNCHANGED <<clean_input, location_column>>
    /\ UNCHANGED <<scraperVars, repoVars, batchVars, browserVars>>

\* The string-field step of validate_and_clean_dataframe:
\* x[:max_length] if too long, None if whitespace-only, else x.
ValidateString(x, max_length) ==
    IF x = Null THEN Null
    ELSE IF Len(x) > max_length THEN SubSeq(x, 1, max_length)
    ELSE IF Strip(x) = <<>> THEN Null
    ELSE x

MAX_PERIOD_LENGTH == 50

\* clean_numeric_value on a number: None stays None, a value above
\* MAX_FLOAT_VALUE is capped; round(x, 2) leaves a whole number of
\* hundredths as it is.
clean_numeric_value(value) ==
    IF value = NoNumber THEN NoNumber
    ELSE IF value > MAX_FLOAT_VALUE THEN MAX_FLOAT_VALUE
    ELSE value

\* A datetime value, and the value of datetime.now().
DateTime(y, m, d) == <<"<datetime>", y, m, d>>
Now == <<"<now>">>

IsLeap(y) == (y % 4 = 0 /\ y % 100 # 0) \/ y % 400 = 0

DaysIn(y, m) ==
    IF m = 2 THEN (IF IsLeap(y) THEN 29 ELSE 28)
    ELSE IF m \in {4, 6, 9, 11} THEN 30
    ELSE 31

AllDigits(s) == s # <<>> /\ \A i \in 1..Len(s) : IsDigit(s[i])

\* str.split(sep) of a text.
RECURSIVE Split(_, _)
Split(s, sep) ==
    IF \E i \in 1..Len(s) : s[i] = sep
    THEN LET k == CHOOSE i \in 1..Len(s) : s[i] = sep /\ \A j \in 1..(i - 1) : s[j] # sep
         IN  <<SubSeq(s, 1, k - 1)>> \o Split(SubSeq(s, k + 1, Len(s)), sep)
    ELSE <<s>>

\* datetime(y, m, d) from the three numeric fields of a date text, as
\* strptime reads them (%Y: four digits; %m, %d: one or two digits), or
\* None when the text does not match or names no day of the calendar.
DateOf(year, month, day) ==
    IF /\ AllDigits(year) /\ Len(year) = 4
       /\ AllDigits(month) /\ Len(month) <= 2
       /\ AllDigits(day) /\ Len(day) <= 2
       /\ IntOf(month) \in 1..12
       /\ IntOf(day) \in 1..DaysIn(IntOf(year), IntOf(month))
    THEN DateTime(IntOf(year), IntOf(month), IntOf(day))
    ELSE Null

\* re.match(r'^\d{4}-\d{2}-\d{2}', date_str)
IsoPrefix(s) ==
    /\ Len(s) >= 10
    /\ \A i \in {1, 2, 3, 4, 6, 7, 9, 10} : IsDigit(s[i])
    /\ s[5] = "-" /\ s[8] = "-"

\* str.replace('Z', '+00:00')
RECURSIVE ReplaceZ(_)
ReplaceZ(s) ==
    IF s = <<>> THEN <<>>
    ELSE (IF s[1] = "Z" THEN <<"+","0","0",":","0","0">> ELSE <<s[1]>>) \o ReplaceZ(Tail(s))

\* Two digits at p that read as a number below limit.
TwoDigitsBelow(s, p, limit) ==
    /\ p + 1 <= Len(s)
    /\ IsDigit(s[p]) /\ IsDigit(s[p + 1])
    /\ IntOf(SubSeq(s, p, p + 1)) < limit

\* The part of an ISO text after the date, as datetime.fromisoformat reads
\* it: one separator character, HH:MM:SS, and an optional offset +HH:MM or
\* -HH:MM.  (Shorter and fractional time forms are not covered.)
IsoTimeOk(rest) ==
    /\ Len(rest) \in {9, 15}
    /\ TwoDigitsBelow(rest, 2, 24) /\ rest[4] = ":"
    /\ TwoDigitsBelow(rest, 5, 60) /\ rest[7] = ":"
    /\ TwoDigitsBelow(rest, 8, 60)
    /\ Len(rest) = 15 =>
           /\ rest[10] \in {"+", "-"}
           /\ TwoDigitsBelow(rest, 11, 24) /\ rest[13] = ":"
           /\ TwoDigitsBelow(rest, 14, 60)

\* datetime.fromisoformat(s): the date of the value, or None where it
\* raises ValueError.
fromisoformat(s) ==
    IF /\ Len(s) >= 10
       /\ \A i \in {1, 2, 3, 4, 6, 7, 9, 10} : IsDigit(s[i])
       /\ s[5] = "-" /\ s[8] = "-"
       /\ Len(s) > 10 => IsoTimeOk(SubSeq(s, 11, Len(s)))
    THEN DateOf(SubSeq(s, 1, 4), SubSeq(s, 6, 7), SubSeq(s, 9, 10))
    ELSE Null

\* The month names of %b and of %B.
MonthAbbreviations ==
    <<<<"j","a","n">>, <<"f","e","b">>, <<"m","a","r">>, <<"a","p","r">>,
      <<"m","a","y">>, <<"j","u","n">>, <<"j","u","l">>, <<"a","u","g">>,
      <<"s","e","p">>, <<"o","c","t">>, <<"n","o","v">>, <<"d","e","c">>>>

MonthNames ==
    <<<<"j","a","n","u","a","r","y">>, <<"f","e","b","r","u","a","r","y">>,
      <<"m","a","r","c","h">>, <<"a","p","r","i","l">>, <<"m","a","y">>,
      <<"j","u","n","e">>, <<"j","u","l","y">>, <<"a","u","g","u","s","t">>,
      <<"s","e","p","t","e","m","b","e","r">>, <<"o","c","t","o","b","e","r">>,
      <<"n","o","v","e","m","b","e","r">>, <<"d","e","c","e","m","b","e","r">>>>

\* The digits of a month number.
MonthText(k) == IF k < 10 THEN <<Digits[k + 1]>> ELSE <<"1", Digits[k - 9]>>

\* strptime(s, '%b %d, %Y') or strptime(s, '%B %d, %Y') with month k: the
\* name, whitespace, one or two digits, a comma, whitespace, four digits.
MonthNameDateOf(s, names, k) ==
    LET p == Len(names[k]) + 1
        q == SpaceRun(s, p)
        d == DigitRun(s, q)
        r == SpaceRun(s, d + 1)
    IN  IF /\ AtNoCase(s, 1, names[k])
           /\ q > p
           /\ d > q
           /\ d <= Len(s) /\ s[d] = ","
           /\ r > d + 1
           /\ Len(s) = r + 3
        THEN DateOf(SubSeq(s, r, r + 3), MonthText(k), SubSeq(s, q, d - 1))
        ELSE Null

MonthNameDate(s, names) ==
    IF \E k \in 1..12 : MonthNameDateOf(s, names, k) # Null
    THEN MonthNameDateOf(s, names, CHOOSE k \in 1..12 : MonthNameDateOf(s, names, k) # Null)
    ELSE Null

\* The loop over the formats %Y-%m-%d, %m/%d/%Y, %d-%m-%Y, %Y/%m/%d,
\* %b %d, %Y and %B %d, %Y: the first that parses the text.
StrptimeFormats(date_str) ==
    LET dash == Split(date_str, "-")
        slash == Split(date_str, "/")
    IN  IF Len(dash) = 3 /\ DateOf(dash[1], dash[2], dash[3]) # Null
        THEN DateOf(dash[1], dash[2], dash[3])
        ELSE IF Len(slash) = 3 /\ DateOf(slash[3], slash[1], slash[2]) # Null
        THEN DateOf(slash[3], slash[1], slash[2])
        ELSE IF Len(dash) = 3 /\ DateOf(dash[3], dash[2], dash[1]) # Null
        THEN DateOf(dash[3], dash[2], dash[1])
        ELSE IF Len(slash) = 3 /\ DateOf(slash[1], slash[2], slash[3]) # Null
        THEN DateOf(slash[1], slash[2], slash[3])
        ELSE IF MonthNameDate(date_str, MonthAbbreviations) # Null
        THEN MonthNameDate(date_str, MonthAbbreviations)
        ELSE MonthNameDate(date_str, MonthNames)

\* JobListing._validate_date_field: a text with a "T" or a space goes to
\* fromisoformat, whose ValueError is caught and gives None.
_validate_date_field(value) ==
    IF value = Null THEN Null
    ELSE LET v == Strip(value)
         IN  IF v = <<>> THEN Null
             ELSE IF (\E i \in 1..Len(v) : v[i] \in {"T", " "})
             THEN fromisoformat(ReplaceZ(v))
             ELSE IF IsoPrefix(v) /\ Len(v) = 10 THEN fromisoformat(v)
             ELSE StrptimeFormats(v)

\* parse_date of the validator: the ISO branch for a text that begins with
\* an ISO date, else the formats in their order.
parse_date(date_value) ==
    IF date_value = Null THEN Null
    ELSE LET date_str == Strip(date_value)
         IN  IF date_str = <<>> THEN Null
             ELSE IF IsoPrefix(date_str) THEN fromisoformat(ReplaceZ(date_str))
             ELSE StrptimeFormats(date_str)

\* The columns of one row after the string, date and numeric steps of
\* validate_and_clean_dataframe, before the date_scraped default.
ValidateRow(row) ==
    [work_setting |-> ValidateString(row.work_setting, MAX_WORK_SETTING_LENGTH),
     salary_period |-> ValidateString(row.salary_period, MAX_PERIOD_LENGTH),
     date_scraped |-> parse_date(row.date_scraped),
     salary_min |-> clean_numeric_value(row.salary_min),
     salary_max |-> clean_numeric_value(row.salary_max),
     salary_min_yearly |-> clean_numeric_value(row.salary_min_yearly),
     salary_max_yearly |-> clean_numeric_value(row.salary_max_yearly),
     salary_midpoint_yearly |-> clean_numeric_value(row.salary_midpoint_yearly)]

\* if 'date_scraped' not in columns or the column is all null: the whole
\* column is set to datetime.now().
DefaultDateScraped(rows) ==
    IF \A i \in 1..Len(rows) : rows[i].date_scraped = Null
    THEN [i \in 1..Len(rows) |-> [rows[i] EXCEPT !.date_scraped = Now]]
    ELSE rows

\* validate_and_clean_dataframe on the cleaned DataFrame, or on the
\* DataFrame read_csv_with_validation has read.
ValidateAndCleanDataframe ==
    /\ clean_status \in {"cleaned", "read"}
    /\ clean_status' = "validated"
    /\ clean_output' = DefaultDateScraped([i \in 1..Len(clean_output) |->
                                              ValidateRow(clean_output[i])])
    /\ UNCHANGED <<clean_input, location_column>>
    /\ UNCHANGED <<scraperVars, repoVars, batchVars, browserVars>>

(***************************************************************************)
(* Specifications.                                                         *)
(***************************************************************************)
\* No call of batch_scrape_descriptions, no with statement on setup_browser.
NoBatch ==
    /\ job_listings_map = <<>>
    /\ max_retries = 0
    /\ batch_pc = "unused"
    /\ url_index = 0
    /\ description = Null
    /\ posted_date = Null
    /\ attempts = 0
    /\ success_count = 0
    /\ scrape_log = <<>>

NoBrowser ==
    /\ browser_pc = "unused"
    /\ driver = 0
    /\ drivers_created = 0
    /\ quit_calls = <<>>
    /\ body_entries = 0
    /\ contexts_left = 0

InitRun(active) ==
    /\ SHOULD_EXIT = FALSE
    /\ runs = active
    /\ pc = [r \in RunIds |-> IF r \in active THEN "captcha" ELSE "unused"]
    /\ max_pages \in [RunIds -> 0..MaxPages]
    /\ \A r \in RunIds \ active : max_pages[r] = 0
    /\ include_descriptions \in [RunIds -> BOOLEAN]
    /\ \A r \in RunIds \ active : include_descriptions[r] = FALSE
    /\ current_page = [r \in RunIds |-> 0]
    /\ cards_on_page = [r \in RunIds |-> 0]
    /\ jobs_on_page = [r \in RunIds |-> <<>>]
    /\ current_page_seen = [r \in RunIds |-> {}]
    /\ job_ids = [r \in RunIds |-> {}]
    /\ seen_title_company_pairs = [r \in RunIds |-> {}]
    /\ all_jobs = [r \in RunIds |-> <<>>]
    /\ result = [r \in RunIds |-> <<>>]
    /\ status = [r \in RunIds |-> "running"]
    /\ end_reason = [r \in RunIds |-> "none"]
    /\ navigations = [r \in RunIds |-> 0]
    /\ presented = [r \in RunIds |-> <<>>]
    /\ stored = [r \in RunIds |-> FALSE]

\* The rows already stored when the process starts.
StoredRow(id) == [job_id |-> id, title |-> Title_a, company |-> Company_c]

InitRepo(dict_lists, id_sets) ==
    /\ job_dicts \in dict_lists
    /\ known_ids \in id_sets
    /\ db_job_listings = {StoredRow(id) : id \in known_ids}
    /\ db_job_descriptions = {}
    /\ save_status = "none"
    /\ added_count = 0
    /\ error_count = 0
    /\ save_log = <<>>

InitClean(batches, flags) ==
    /\ clean_input \in batches
    /\ location_column \in flags
    /\ clean_status = IF clean_input = <<>> THEN "idle" ELSE "input"
    /\ clean_output = <<>>

\* Lists of at most n elements of S.
SeqsUpTo(S, n) == UNION {[1..k -> S] : k \in 0..n}

\* One scraping run whose listings are then stored.
Init ==
    /\ InitRun({1})
    /\ NoBatch /\ NoBrowser
    /\ InitRepo({<<>>}, {{}, {J1}})
    /\ InitClean({<<>>}, {TRUE})

Next ==
    \/ \E r \in runs : HandleCaptchaChallenge(r)
    \/ \E r \in runs : CheckPage(r)
    \/ \E r \in runs : FindJobCards(r)
    \/ \E r \in runs : CheckCard(r)
    \/ \E r \in runs : ExtractCard(r)
    \/ \E r \in runs : PageEnd(r)
    \/ \E r \in runs : NavigateToNextPage(r)
    \/ \E r \in runs : BrowserRaises(r)
    \/ \E r \in runs : StoreRun(r)
    \/ HandleExitSignal

Spec == Init /\ [][Next]_vars

\* Two scraping runs interleaved in one process.
InitTwoRuns ==
    /\ InitRun({1, 2})
    /\ NoBatch /\ NoBrowser
    /\ max_pages[1] \in 1..2 /\ max_pages[2] = 1
    /\ \A r \in RunIds : ~include_descriptions[r]
    /\ InitRepo({<<>>}, {{}})
    /\ InitClean({<<>>}, {TRUE})

SpecTwoRuns == InitTwoRuns /\ [][Next]_vars

(***************************************************************************)
(* The repository on its own: save_job_listings over any list of           *)
(* dictionaries.                                                           *)
(***************************************************************************)
MaxDicts == 2

Description_d == <<"d">>

DictChoices ==
    {JobDict(id, t, c, Absent) :
        id \in {Absent, Null, <<>>, <<" ">>, J1, <<" ", "j", "1">>},
        t \in {Absent, <<" ">>, Title_a},
        c \in {Null, Company_c}}
    \cup {JobDict(id, Title_a, Company_c, Description_d) : id \in {J1, <<" ", "j", "1">>}}

InitSave ==
    /\ InitRun({})
    /\ NoBatch /\ NoBrowser
    /\ InitRepo(SeqsUpTo(DictChoices, MaxDicts), {{}, {J1}})
    /\ InitClean({<<>>}, {TRUE})

SaveInput ==
    /\ runs = {}
    /\ save_status = "none"
    /\ SaveJobListings(job_dicts)
    /\ UNCHANGED <<scraperVars, cleanVars, batchVars, browserVars, stored>>

NextSave == SaveInput

SpecSave == InitSave /\ [][NextSave]_vars

(***************************************************************************)
(* DBJobListingRepository.save_job_listings on its own, over any list of   *)
(* listings and a table that holds some of their ids.                      *)
(***************************************************************************)
MaxListings == 3

ListingChoices ==
    {Listing(id, Title_a_b, Company_b_c, d) :
        id \in {Null, <<>>, J1, J2}, d \in {Null, Description_d}}

InitDBSave ==
    /\ InitRun({})
    /\ NoBatch /\ NoBrowser
    /\ job_dicts \in SeqsUpTo(ListingChoices, MaxListings)
    /\ known_ids \in {{}, {J1}, {J1, J2}}
    /\ db_job_listings = {StoredRow(id) : id \in known_ids}
    /\ db_job_descriptions \in
           {{}, {[job_id |-> id, description |-> Description_d] : id \in known_ids}}
    /\ save_status = "none"
    /\ added_count = 0
    /\ error_count = 0
    /\ save_log = <<>>
    /\ InitClean({<<>>}, {TRUE})

DBSaveInput ==
    /\ runs = {}
    /\ save_status = "none"
    /\ DBSaveJobListings(job_dicts)
    /\ UNCHANGED <<scraperVars, cleanVars, batchVars, browserVars, stored>>

NextDBSave == DBSaveInput

SpecDBSave == InitDBSave /\ [][NextDBSave]_vars

(***************************************************************************)
(* The cleaner on its own: clean_dataframe, then                           *)
(* validate_and_clean_dataframe, over any DataFrame.                       *)
(***************************************************************************)
MaxRows == 2

Str_Remote == <<"R","e","m","o","t","e">>
Str_Hybrid == <<"H","y","b","r","i","d">>
Str_Onsite == <<"O","n","s","i","t","e">>
Str_Austin == <<"A","u","s","t","i","n">>
Salary_15_an_hour == <<"$","1","5"," ","a","n"," ","h","o","u","r">>
Salary_DOE == <<"P","a","y",","," ","D","O","E">>

Salary_15_to_20_50_a_week ==
    <<"$","1","5"," ","-"," ","$","2","0",".","5"," ","a"," ","w","e","e","k">>
Salary_20_to_15 == <<"$","2","0"," ","t","o"," ","$","1","5">>
Salary_10_000_000 == <<"$","1","0",",","0","0","0",",","0","0","0">>
Salary_3_000_a_month == <<"$","3",",","0","0","0"," ","a"," ","m","o","n","t","h">>

Str_Gary == <<"G","a","r","y">>
Str_TX == <<"T","X">>
Str_IN == <<"I","N">>
Zip_46402 == <<"4","6","4","0","2">>
Zip_46402_1234 == <<"4","6","4","0","2","-","1","2","3","4">>

\* "City, ST" or "City, ST ZIP"
CityStateZipText(city, state, zip) ==
    city \o <<",", " ">> \o state \o (IF zip = Null THEN <<>> ELSE <<" ">> \o zip)

\* The location texts that are already of the form City, ST[ ZIP].
CityStateZipTexts ==
    {CityStateZipText(Str_Gary, st, z) : st \in {Str_TX, Str_IN}, z \in {Null, Zip_46402}}
    \cup {CityStateZipText(Str_Gary, Str_IN, Zip_46402_1234)}

\* The rows of the DataFrame: a row varies in its work setting and location
\* or in its salary text; the DataFrame has no date_scraped values.
RowChoices ==
    [work_setting : {Null, <<>>, <<" ">>, Str_Remote, Str_Hybrid, Str_Onsite},
     location : {Null, Str_Remote, Str_Hybrid, Str_Austin},
     salary : {Null},
     date_scraped : {Null}]
    \cup
    [work_setting : {Null},
     location : CityStateZipTexts,
     salary : {Null},
     date_scraped : {Null}]
    \cup
    [work_setting : {Null},
     location : {Null},
     salary : {Salary_15_an_hour, Salary_DOE, Salary_15_to_20_50_a_week,
               Salary_20_to_15, Salary_10_000_000, Salary_3_000_a_month},
     date_scraped : {Null}]

InitCleaner ==
    /\ InitRun({})
    /\ NoBatch /\ NoBrowser
    /\ InitRepo({<<>>}, {{}})
    /\ InitClean(SeqsUpTo(RowChoices, MaxRows) \ {<<>>}, BOOLEAN)
    /\ ~location_column => \A i \in 1..Len(clean_input) : clean_input[i].location = Null

NextClean ==
    \/ CleanDataframe
    \/ ValidateAndCleanDataframe

SpecClean == InitCleaner /\ [][NextClean]_vars

(***************************************************************************)
(* The validator on its own: read_csv_with_validation hands the DataFrame  *)
(* it has read to validate_and_clean_dataframe.                            *)
(***************************************************************************)
Spaces(n) == [i \in 1..n |-> " "]

Date_2024_01_05 == <<"2","0","2","4","-","0","1","-","0","5">>
Date_2024_13_05 == <<"2","0","2","4","-","1","3","-","0","5">>
Date_01_05_2024 == <<"0","1","/","0","5","/","2","0","2","4">>
Date_soon == <<"s","o","o","n">>

\* A row of the file with no value in any column.
EmptyRow ==
    [work_setting |-> Null, salary_period |-> Null, date_scraped |-> Null,
     salary_min |-> NoNumber, salary_max |-> NoNumber,
     salary_min_yearly |-> NoNumber, salary_max_yearly |-> NoNumber,
     salary_midpoint_yearly |-> NoNumber]

\* The rows of the file: a row has a value in one column.
CsvRowChoices ==
    {[EmptyRow EXCEPT !.work_setting = w] :
        w \in {<<>>, <<" ">>, Str_Remote, Spaces(MAX_WORK_SETTING_LENGTH + 1),
               <<"x">> \o Spaces(MAX_WORK_SETTING_LENGTH)}}
    \cup {[EmptyRow EXCEPT !.salary_min = n] :
        n \in {0, 1500, MAX_FLOAT_VALUE, MAX_FLOAT_VALUE + 1,
               0 - 1500, 0 - MAX_FLOAT_VALUE, 0 - MAX_FLOAT_VALUE - 1}}
    \cup {[EmptyRow EXCEPT !.date_scraped = d] :
        d \in {Null, <<" ">>, Date_2024_01_05, Date_2024_13_05, Date_01_05_2024,
               Date_soon}}

InitValidate ==
    /\ InitRun({})
    /\ NoBatch /\ NoBrowser
    /\ InitRepo({<<>>}, {{}})
    /\ clean_input = <<>>
    /\ location_column = TRUE
    /\ clean_status = "read"
    /\ clean_output \in SeqsUpTo(CsvRowChoices, MaxRows) \ {<<>>}

NextValidate == ValidateAndCleanDataframe

SpecValidate == InitValidate /\ [][NextValidate]_vars

(***************************************************************************)
(* The two date parsers on their own: JobListing.from_dict applies         *)
(* _validate_date_field to a date field, validate_and_clean_dataframe      *)
(* applies parse_date to a date column.                                    *)
(***************************************************************************)
MaxDates == 2

Date_iso_Z == <<"2","0","2","4","-","0","1","-","0","5","T","1","0",":","0","0",":","0","0","Z">>
Date_iso_offset == <<"2","0","2","4","-","0","1","-","0","5","T","1","0",":","0","0",":","0","0","+","0","2",":","0","0">>
Date_iso_T == <<"2","0","2","4","-","0","1","-","0","5","T","1","0",":","0","0",":","0","0">>
Date_iso_space == <<"2","0","2","4","-","0","1","-","0","5"," ","1","0",":","0","0",":","0","0">>
Date_25_12_2024 == <<"2","5","-","1","2","-","2","0","2","4">>
Date_2024_02_29_slashes == <<"2","0","2","4","/","0","2","/","2","9">>
Date_Jan_05_2024 == <<"J","a","n"," ","0","5",","," ","2","0","2","4">>
Date_January_05_2024 == <<"J","a","n","u","a","r","y"," ","0","5",","," ","2","0","2","4">>
Date_Dec_25_2024 == <<"D","e","c"," ","2","5",","," ","2","0","2","4">>
Date_Taco == <<"T","a","c","o">>
Date_13_01_2024 == <<"1","3","/","0","1","/","2","0","2","4">>
Date_Jan_32_2024 == <<"J","a","n"," ","3","2",","," ","2","0","2","4">>

\* The texts in an accepted format, each with the date it names.
AcceptedDateTexts ==
    {[text |-> Date_2024_01_05, date |-> DateTime(2024, 1, 5)],
     [text |-> Date_01_05_2024, date |-> DateTime(2024, 1, 5)],
     [text |-> Date_iso_Z, date |-> DateTime(2024, 1, 5)],
     [text |-> Date_iso_offset, date |-> DateTime(2024, 1, 5)],
     [text |-> Date_iso_T, date |-> DateTime(2024, 1, 5)],
     [text |-> Date_iso_space, date |-> DateTime(2024, 1, 5)],
     [text |-> Date_25_12_2024, date |-> DateTime(2024, 12, 25)],
     [text |-> Date_2024_02_29_slashes, date |-> DateTime(2024, 2, 29)],
     [text |-> Date_Jan_05_2024, date |-> DateTime(2024, 1, 5)],
     [text |-> Date_January_05_2024, date |-> DateTime(2024, 1, 5)],
     [text |-> Date_Dec_25_2024, date |-> DateTime(2024, 12, 25)]}

\* The texts in no accepted format.
OtherDateTexts ==
    {Date_soon, Date_2024_13_05, Date_Taco, Date_13_01_2024, Date_Jan_32_2024}

DateTextChoices == {e.text : e \in AcceptedDateTexts} \cup OtherDateTexts

InitDates ==
    /\ InitRun({})
    /\ NoBatch /\ NoBrowser
    /\ InitRepo({<<>>}, {{}})
    /\ location_column = TRUE
    /\ clean_status = "dates"
    /\ clean_input \in SeqsUpTo(DateTextChoices, MaxDates) \ {<<>>}
    /\ clean_output = <<>>

\* cleaned_df[date_field].apply(parse_date)
ParseDates ==
    /\ clean_status = "dates"
    /\ clean_status' = "parse_date"
    /\ clean_output' = [i \in 1..Len(clean_input) |-> parse_date(clean_input[i])]
    /\ UNCHANGED <<clean_input, location_column>>
    /\ UNCHANGED <<scraperVars, repoVars, batchVars, browserVars>>

\* JobListing._validate_date_field on each value.
ValidateDateFields ==
    /\ clean_status = "dates"
    /\ clean_status' = "_validate_date_field"
    /\ clean_output' = [i \in 1..Len(clean_input) |-> _validate_date_field(clean_input[i])]
    /\ UNCHANGED <<clean_input, location_column>>
    /\ UNCHANGED <<scraperVars, repoVars, batchVars, browserVars>>

NextDates == ParseDates \/ ValidateDateFields

SpecDates == InitDates /\ [][NextDates]_vars

(***************************************************************************)
(* batch_scrape_descriptions: the descriptions of the listings of a page.  *)
(***************************************************************************)
MaxUrls == 2
MaxRetries == 2

\* What scrape_job_description returns: the description (None when no
\* selector found one or when the page raised, the empty text when the
\* cleaned HTML is empty) and the posted date.  The job details are left out.
ScrapeResult(d, p) == [description |-> d, posted_date |-> p]

ScrapeResults ==
    {ScrapeResult(Null, Null), ScrapeResult(Null, Date_2024_01_05),
     ScrapeResult(<<>>, Null), ScrapeResult(Description_d, Null),
     ScrapeResult(Description_d, Date_2024_01_05)}

\* A listing of job_listings_map before the batch.
UnscrapedListing == [description |-> Null, date_posted |-> Null]

\* The condition of the while loop, without the test of the description.
RetryWhileAttemptsLeft(d, a, m) == a <= m

\* while description is None and attempts <= max_retries
RetryCondition(d, a, m) == d = Null /\ a <= m

\* The head of the for loop over job_urls; an empty map returns at once.
NextJobUrl ==
    /\ batch_pc = "for"
    /\ IF url_index < Len(job_listings_map)
       THEN /\ url_index' = url_index + 1
            /\ description' = Null
            /\ attempts' = 0
            /\ scrape_log' = Append(scrape_log, <<>>)
            /\ batch_pc' = "while"
       ELSE /\ batch_pc' = "done"
            /\ UNCHANGED <<url_index, description, attempts, scrape_log>>
    /\ UNCHANGED <<job_listings_map, max_retries, posted_date, success_count>>
    /\ UNCHANGED <<scraperVars, repoVars, cleanVars, browserVars>>

\* One pass of the while loop: a call of scrape_job_description, which
\* catches every Exception of the page and then returns None.
ScrapeJobDescription ==
    /\ batch_pc = "while"
    /\ RetryCondition(description, attempts, max_retries)
    /\ \E r \in ScrapeResults :
          /\ description' = r.description
          /\ posted_date' = r.posted_date
          /\ scrape_log' = [scrape_log EXCEPT ![url_index] = Append(@, r.description)]
    /\ attempts' = attempts + 1
    /\ UNCHANGED <<job_listings_map, max_retries, batch_pc, url_index, success_count>>
    /\ UNCHANGED <<scraperVars, repoVars, cleanVars, browserVars>>

\* After the while loop: the listing takes what the last call returned.
UpdateJobListing ==
    /\ batch_pc = "while"
    /\ ~RetryCondition(description, attempts, max_retries)
    /\ job_listings_map' =
           [job_listings_map EXCEPT ![url_index] =
               [description |-> IF Truthy(description) THEN description ELSE @.description,
                date_posted |-> IF Truthy(posted_date) THEN posted_date ELSE @.date_posted]]
    /\ success_count' = IF Truthy(description) THEN success_count + 1 ELSE success_count
    /\ batch_pc' = "for"
    /\ UNCHANGED <<max_retries, url_index, description, posted_date, attempts, scrape_log>>
    /\ UNCHANGED <<scraperVars, repoVars, cleanVars, browserVars>>

InitBatch ==
    /\ InitRun({})
    /\ NoBrowser
    /\ InitRepo({<<>>}, {{}})
    /\ InitClean({<<>>}, {TRUE})
    /\ job_listings_map \in SeqsUpTo({UnscrapedListing}, MaxUrls)
    /\ max_retries \in 0..MaxRetries
    /\ batch_pc = "for"
    /\ url_index = 0
    /\ description = Null
    /\ posted_date = Null
    /\ attempts = 0
    /\ success_count = 0
    /\ scrape_log = <<>>

NextBatch == NextJobUrl \/ ScrapeJobDescription \/ UpdateJobListing

\* The loops run in one thread with nothing to wait for but the page loads,
\* which time out.
SpecBatch == InitBatch /\ [][NextBatch]_vars /\ WF_vars(NextBatch)

(***************************************************************************)
(* setup_browser (indeed_scraper/browser.py): a generator wrapped by       *)
(* contextlib.contextmanager, used in with statements one after another.   *)
(***************************************************************************)
MaxContexts == 3

\* uc.Chrome(...): one more driver object, not yet quit.
NewDriver == drivers_created + 1

\* finally: if driver: driver.quit()
QuitIn(calls, d) == IF d = 0 THEN calls ELSE [calls EXCEPT ![d] = @ + 1]

\* The with statement is entered: the generator runs up to its first yield,
\* into the handler of WebDriverException, or out through the finally
\* clause when uc.Chrome or maximize_window raises another exception.
SetupBrowser ==
    /\ browser_pc \in {"idle", "exited"}
    /\ contexts_left > 0
    /\ contexts_left' = contexts_left - 1
    /\ \/ /\ browser_pc' = "body"                 \* driver yielded
          /\ driver' = NewDriver
          /\ drivers_created' = NewDriver
          /\ quit_calls' = Append(quit_calls, 0)
          /\ body_entries' = 1
       \/ /\ browser_pc' = "fallback"             \* uc.Chrome raises WebDriverException
          /\ driver' = 0
          /\ body_entries' = 0
          /\ UNCHANGED <<drivers_created, quit_calls>>
       \/ /\ browser_pc' = "fallback"             \* maximize_window raises WebDriverException
          /\ driver' = NewDriver
          /\ drivers_created' = NewDriver
          /\ quit_calls' = Append(quit_calls, 0)
          /\ body_entries' = 0
       \/ /\ browser_pc' = "exited"               \* uc.Chrome raises another exception
          /\ driver' = 0
          /\ body_entries' = 0
          /\ UNCHANGED <<drivers_created, quit_calls>>
       \/ /\ browser_pc' = "exited"               \* maximize_window raises another exception
          /\ driver' = NewDriver
          /\ drivers_created' = NewDriver
          /\ quit_calls' = Append(quit_calls, 1)
          /\ body_entries' = 0
    /\ UNCHANGED <<scraperVars, repoVars, cleanVars, batchVars>>

\* The handler of WebDriverException: a second uc.Chrome with minimal
\* options is assigned to driver and yielded.  A generator that yields
\* after an exception was thrown into it makes __exit__ raise RuntimeError
\* and stays suspended at that yield.
FallbackBrowser ==
    /\ browser_pc = "fallback"
    /\ \/ /\ browser_pc' = "exited"               \* uc.Chrome raises: re-raised, finally
          /\ quit_calls' = QuitIn(quit_calls, driver)
          /\ UNCHANGED <<driver, drivers_created, body_entries>>
       \/ /\ browser_pc' = "exited"               \* maximize_window raises: re-raised, finally
          /\ driver' = NewDriver
          /\ drivers_created' = NewDriver
          /\ quit_calls' = Append(quit_calls, 1)
          /\ UNCHANGED body_entries
       \/ /\ driver' = NewDriver                  \* second yield
          /\ drivers_created' = NewDriver
          /\ quit_calls' = Append(quit_calls, 0)
          /\ IF body_entries = 0
             THEN browser_pc' = "fallback_body" /\ body_entries' = 1
             ELSE browser_pc' = "suspended" /\ UNCHANGED body_entries
    /\ UNCHANGED contexts_left
    /\ UNCHANGED <<scraperVars, repoVars, cleanVars, batchVars>>

\* The body of the with statement ends: it returns, raises
\* WebDriverException or raises another exception; __exit__ resumes the
\* generator or throws the exception into it at its yield.
BodyEnds ==
    /\ browser_pc \in {"body", "fallback_body"}
    /\ \/ /\ browser_pc' = "exited"               \* returns, or another exception: finally
          /\ quit_calls' = QuitIn(quit_calls, driver)
       \/ /\ browser_pc = "fallback_body"         \* WebDriverException at the second yield:
          /\ browser_pc' = "exited"               \* caught by except Exception, re-raised
          /\ quit_calls' = QuitIn(quit_calls, driver)
       \/ /\ browser_pc = "body"                  \* WebDriverException at the first yield
          /\ browser_pc' = "fallback"
          /\ UNCHANGED quit_calls
    /\ UNCHANGED <<driver, drivers_created, body_entries, contexts_left>>
    /\ UNCHANGED <<scraperVars, repoVars, cleanVars, batchVars>>

\* The suspended generator is finalized some time after the with statement
\* was left: GeneratorExit at the second yield passes except Exception and
\* runs the finally clause.
GeneratorFinalized ==
    /\ browser_pc = "suspended"
    /\ browser_pc' = "exited"
    /\ quit_calls' = QuitIn(quit_calls, driver)
    /\ UNCHANGED <<driver, drivers_created, body_entries, contexts_left>>
    /\ UNCHANGED <<scraperVars, repoVars, cleanVars, batchVars>>

InitBrowser ==
    /\ InitRun({})
    /\ NoBatch
    /\ InitRepo({<<>>}, {{}})
    /\ InitClean({<<>>}, {TRUE})
    /\ browser_pc = "idle"
    /\ driver = 0
    /\ drivers_created = 0
    /\ quit_calls = <<>>
    /\ body_entries = 0
    /\ contexts_left \in 1..MaxContexts

NextBrowser == SetupBrowser \/ FallbackBrowser \/ BodyEnds \/ GeneratorFinalized

SpecBrowser == InitBrowser /\ [][NextBrowser]_vars

(***************************************************************************)
(* Properties of the scraping run and of the storing of its listings.      *)
(***************************************************************************)
\* The dictionaries whose rows a committed save inserted, and their ids.
Inserted ==
    IF save_status = "committed"
    THEN {i \in 1..Len(job_dicts) : save_log[i].success}
    ELSE {}

InsertedId(i) == from_dict(job_dicts[i]).job.job_id

Count(r, cls) == Cardinality({i \in 1..Len(presented[r]) : presented[r][i].cls = cls})

AlreadyExisting ==
    Cardinality({i \in 1..Len(save_log) : save_log[i].message = "Job already exists"})

\* C2: when a run has ended every candidate it was presented is classified
\* exactly once as new, duplicate or invalid, so the three counts add up to
\* the number of candidates (all zero when no page was scraped); the counts
\* of a save add up to the number of dictionaries it was given.
SummaryConservation ==
    /\ \A r \in runs : pc[r] = "done" =>
          Count(r, "new") + Count(r, "duplicate") + Count(r, "invalid") = Len(presented[r])
    /\ save_status # "none" =>
          added_count + error_count + AlreadyExisting = Len(job_dicts)

\* A run that met one candidate of each class and ended after a stop was
\* requested.
OneOfEachClass ==
    /\ pc[1] = "done"
    /\ SHOULD_EXIT
    /\ Count(1, "new") = 1
    /\ Count(1, "duplicate") = 1
    /\ Count(1, "invalid") = 1

Ad(r, i) == presented[r][i].card.extracted /\ presented[r][i].card.job_id = Null

SamePair(r, i, j) ==
    /\ presented[r][i].card.extracted
    /\ presented[r][j].card.extracted
    /\ presented[r][i].card.title = presented[r][j].card.title
    /\ presented[r][i].card.company = presented[r][j].card.company

\* C3: of two candidates of a run with the same title and company and no
\* job_id, the first one with that title and company is accepted and the
\* second is classified duplicate, so exactly one record with that title and
\* company is returned.
CompositeKeyFallback ==
    \A r \in runs : (pc[r] = "done" /\ status[r] = "returned") =>
        \A i, j \in 1..Len(presented[r]) :
            (/\ i < j
             /\ Ad(r, i) /\ Ad(r, j) /\ SamePair(r, i, j)
             /\ \A k \in 1..(i - 1) : ~SamePair(r, k, i))
            => /\ presented[r][i].cls = "new"
               /\ presented[r][j].cls = "duplicate"
               /\ Cardinality({n \in 1..Len(result[r]) :
                      /\ result[r][n].title = presented[r][i].card.title
                      /\ result[r][n].company = presented[r][i].card.company}) = 1

\* C4: the records of all_jobs and of the returned sequence are in the order
\* in which their candidates were presented, and each record is the record
\* of the candidate at its position.
OutputInPresentationOrder ==
    \A r \in runs :
        /\ \A i, j \in 1..Len(all_jobs[r]) : i < j => all_jobs[r][i].idx < all_jobs[r][j].idx
        /\ \A i, j \in 1..Len(result[r]) : i < j => result[r][i].idx < result[r][j].idx
        /\ \A i \in 1..Len(result[r]) :
              /\ result[r][i].idx \in 1..Len(presented[r])
              /\ presented[r][result[r][i].idx].cls = "new"
              /\ presented[r][result[r][i].idx].card.title = result[r][i].title

\* A run that returned two records, the second one taken from the second
\* page.
RecordsFromTwoPages ==
    /\ pc[1] = "done"
    /\ current_page[1] = 2
    /\ Len(result[1]) = 2
    /\ result[1][1].idx = 1
    /\ result[1][2].idx = Len(presented[1])
    /\ cards_on_page[1] = 1

\* C7: a run that returned did so because a stop was requested, because the
\* page it was on had no card, because the page limit was reached or because
\* there was no next page to go to.
ExhaustedOnlyWithoutMorePages ==
    \A r \in runs : (pc[r] = "done" /\ status[r] = "returned") =>
        \/ SHOULD_EXIT
        \/ cards_on_page[r] = 0
        \/ current_page[r] >= max_pages[r]
        \/ end_reason[r] = "nav_failed"

\* The records accepted so far, in the order of presentation.
RECURSIVE AcceptedFrom(_, _)
AcceptedFrom(r, i) ==
    IF i > Len(presented[r]) THEN <<>>
    ELSE (IF presented[r][i].cls \in {"new", "pending"}
          THEN <<[job_id |-> presented[r][i].card.job_id,
                  title |-> presented[r][i].card.title,
                  company |-> presented[r][i].card.company,
                  idx |-> i]>>
          ELSE <<>>) \o AcceptedFrom(r, i + 1)

\* C8: a run that ended after a stop was requested, the browser not having
\* failed, returned normally with every record accepted so far.
StopReturnsAccumulated ==
    \A r \in runs : (pc[r] = "done" /\ SHOULD_EXIT /\ end_reason[r] # "browser_error") =>
        /\ status[r] = "returned"
        /\ result[r] = AcceptedFrom(r, 1)

JobIdsPresented(r) ==
    {presented[r][i].card.job_id : i \in 1..Len(presented[r])}

KeysPresented(r) ==
    {TitleCompany(presented[r][i].card) :
        i \in {k \in 1..Len(presented[r]) : presented[r][k].card.extracted}}

\* C9: the tracking sets of a run hold only job ids and title/company keys
\* of candidates of that run, and every candidate a run classified duplicate
\* repeats the job id or the key of an earlier candidate of the same run.
RunsUseOwnTrackingSets ==
    \A r \in runs :
        /\ job_ids[r] \subseteq JobIdsPresented(r)
        /\ seen_title_company_pairs[r] \subseteq KeysPresented(r)
        /\ current_page_seen[r] \subseteq KeysPresented(r)
        /\ \A j \in 1..Len(presented[r]) : presented[r][j].cls = "duplicate" =>
              \E i \in 1..(j - 1) :
                  /\ presented[r][i].card.extracted
                  /\ \/ /\ Truthy(presented[r][j].card.job_id)
                        /\ presented[r][i].card.job_id = presented[r][j].card.job_id
                     \/ TitleCompany(presented[r][i].card) = TitleCompany(presented[r][j].card)

\* Both runs accepted a candidate with the same job id, the second run after
\* the first had put it into its tracking sets.
SameIdAcceptedByBothRuns ==
    /\ J1 \in job_ids[1]
    /\ J1 \in job_ids[2]
    /\ \E i \in 1..Len(presented[1]) :
          presented[1][i].cls = "new" /\ presented[1][i].card.job_id = J1
    /\ \E i \in 1..Len(presented[2]) :
          presented[2][i].cls = "new" /\ presented[2][i].card.job_id = J1

(***************************************************************************)
(* Properties of save_job_listings.                                        *)
(***************************************************************************)
\* The required fields a dictionary lacks: the key is absent, or its value
\* is None or holds nothing but whitespace.
MissingFields(d) ==
    {f \in {"job_id", "title", "company"} :
        d[f] = Absent \/ d[f] = Null \/ Strip(d[f]) = <<>>}

\* C6: a dictionary that lacks a required field is rejected with a message
\* that names each field it lacks; the rejection is an entry of the results
\* of the save, no row is stored for it, and every later dictionary of the
\* list is processed as well.
MissingFieldRejected ==
    save_status # "none" =>
        /\ Len(save_log) = Len(job_dicts)
        /\ \A i \in 1..Len(job_dicts) : MissingFields(job_dicts[i]) # {} =>
              /\ ~save_log[i].success
              /\ save_log[i].message \in {"Missing job_id", "Validation error"}
              /\ save_log[i].names = MissingFields(job_dicts[i])
              /\ i \notin Inserted

(***************************************************************************)
(* Properties of the cleaner.                                              *)
(***************************************************************************)
\* C5: an exception raised on one row never aborts the cleaning of the
\* batch: clean_dataframe returns, with one cleaned row for every row it was
\* given.
MalformedCandidateIsolated ==
    clean_status # "input" =>
        /\ clean_status # "raised"
        /\ Len(clean_output) = Len(clean_input)

\* C10: whatever the work setting and the location of a row, its work
\* setting after cleaning and after validation is remote, hybrid or
\* in-person.
WorkSettingTotality ==
    (location_column /\ clean_status \in {"cleaned", "validated"}) =>
        \A i \in 1..Len(clean_output) :
            clean_output[i].work_setting \in {Str_remote, Str_hybrid, Str_in_person}

(***************************************************************************)
(* Properties of the validator and of the salary columns.                  *)
(***************************************************************************)
StringFields == {"work_setting", "salary_period"}

NumericFields ==
    {"salary_min", "salary_max", "salary_min_yearly", "salary_max_yearly",
     "salary_midpoint_yearly"}

\* C11: no string field of a validated row is an empty or whitespace-only
\* text: such a value, whatever its length, has become null.
NoBlankStringField ==
    clean_status = "validated" =>
        \A i \in 1..Len(clean_output) : \A f \in StringFields :
            clean_output[i][f] = Null \/ Strip(clean_output[i][f]) # <<>>

\* C12: every numeric field of a validated row is missing or lies between
\* -MAX_FLOAT_VALUE and MAX_FLOAT_VALUE.
NumericFieldsCapped ==
    clean_status = "validated" =>
        \A i \in 1..Len(clean_output) : \A f \in NumericFields :
            \/ clean_output[i][f] = NoNumber
            \/ /\ clean_output[i][f] <= MAX_FLOAT_VALUE
               /\ clean_output[i][f] >= 0 - MAX_FLOAT_VALUE

\* The amounts of a salary text, in the order in which they stand in it.
AmountsOf(salary_text) ==
    IF ~Truthy(salary_text) THEN <<>>
    ELSE LET found == FindAmounts(salary_text, 1)
         IN  IF \E k \in 1..Len(found) : FloatRaises(RemoveCommas(found[k]))
             THEN <<>>
             ELSE [k \in 1..Len(found) |-> FloatOf(RemoveCommas(found[k]))]

MidpointIffBothYearlyBounds ==
    clean_status = "cleaned" =>
        \A i \in 1..Len(clean_output) :
            LET row == clean_output[i]
            IN  /\ row.salary_midpoint_yearly # NoNumber
                       <=> (row.salary_min_yearly # NoNumber /\ row.salary_max_yearly # NoNumber)
                /\ row.salary_midpoint_yearly # NoNumber
                       => 2 * row.salary_midpoint_yearly
                              = row.salary_min_yearly + row.salary_max_yearly

\* A cleaned DataFrame with a row that has a midpoint between two different
\* yearly bounds and a row without salary.
MidpointOfWeeklyRange ==
    /\ clean_status = "cleaned"
    /\ Len(clean_output) = 2
    /\ clean_output[1].salary_midpoint_yearly = 92300
    /\ clean_output[1].salary_min_yearly = 78000
    /\ clean_input[2].salary = Null
    /\ clean_output[2].salary_midpoint_yearly = NoNumber

NoDigit(salary_text) == \A k \in 1..Len(salary_text) : ~IsDigit(salary_text[k])

\* C15: a salary text without any digit, whatever commas and periods it
\* holds, does not make the parser raise and gives salary_min, salary_max
\* and salary_period all null; in every row salary_period is there exactly
\* when an amount was found in the text.
NoAmountGivesNulls ==
    clean_status # "input" =>
        \A i \in 1..Len(clean_input) :
            /\ (clean_input[i].salary # Null /\ NoDigit(clean_input[i].salary)) =>
                  /\ clean_status # "raised"
                  /\ clean_output[i].salary_min = NoNumber
                  /\ clean_output[i].salary_max = NoNumber
                  /\ clean_output[i].salary_period = Null
            /\ clean_status # "raised" =>
                  (clean_output[i].salary_period # Null
                      <=> AmountsOf(clean_input[i].salary) # <<>>)

\* C16: every validated row has a date_scraped, whatever the other rows of
\* the DataFrame hold.
DateScrapedAlwaysSet ==
    clean_status = "validated" =>
        \A i \in 1..Len(clean_output) : clean_output[i].date_scraped # Null

\* Pages scraped and calls of navigate_to_next_page stay within the page
\* limit, and the call is made only while a further page is permitted.
NavigationWithinLimit ==
    \A r \in runs : max_pages[r] >= 1 =>
        /\ current_page[r] <= max_pages[r]
        /\ navigations[r] <= max_pages[r] - 1
        /\ navigations[r] \in {current_page[r] - 1, current_page[r]}
        /\ pc[r] = "navigate" => current_page[r] < max_pages[r]

\* A run that no stop request, empty page, failed navigation or browser
\* failure has ended.
RanToPageLimit(r) ==
    /\ pc[r] = "done"
    /\ max_pages[r] >= 1
    /\ ~SHOULD_EXIT
    /\ end_reason[r] \notin {"no_jobs", "nav_failed", "browser_error"}

\* C17: for max_pages >= 1 at most max_pages pages are scraped and
\* navigate_to_next_page is called at most max_pages - 1 times, never on the
\* last permitted page; a run whose pages all gave jobs and whose navigations
\* all succeeded made exactly max_pages - 1 navigations and returned the
\* jobs of the pages it scraped.
PageLimitContract ==
    /\ NavigationWithinLimit
    /\ \A r \in runs : RanToPageLimit(r) =>
           /\ navigations[r] = max_pages[r] - 1
           /\ status[r] = "returned"
           /\ result[r] = AcceptedFrom(r, 1)

\* A run of two pages that ended at the page limit with one navigation.
TwoPagesOneNavigation ==
    \E r \in runs : /\ RanToPageLimit(r)
                    /\ end_reason[r] = "limit"
                    /\ max_pages[r] = 2
                    /\ navigations[r] = 1
                    /\ Len(result[r]) = 2

\* The rows of job_listings that were not there when the call began.
NewlyInserted == {row \in db_job_listings : row.job_id \notin known_ids}

Accepted(r, i) == presented[r][i].cls \in {"new", "pending"}

\* A candidate whose title/company key equals the key of a candidate
\* accepted before it in the run is a duplicate, whatever its job_id.
EarlierKeyShadowsLater ==
    \A r \in runs : \A i, j \in 1..Len(presented[r]) :
        (/\ i < j
         /\ presented[r][i].card.extracted
         /\ presented[r][j].card.extracted
         /\ TitleCompany(presented[r][i].card) = TitleCompany(presented[r][j].card)
         /\ Accepted(r, i))
        => presented[r][j].cls = "duplicate"

\* A record that was classified new stays new when later candidates arrive.
NewStaysNew ==
    \A r \in runs : \A i \in 1..Len(presented[r]) :
        presented[r][i].cls = "new" =>
            /\ Len(presented'[r]) >= i
            /\ presented'[r][i] = presented[r][i]

\* C19: the title/company check applies to every candidate, also one with
\* a job_id never seen: it is dropped when a candidate accepted earlier in
\* the run has its title/company key, and the earlier record is never the
\* one that gives way.
CompositeCheckAlways == []EarlierKeyShadowsLater /\ [][NewStaysNew]_vars

\* A candidate with a fresh job_id dropped for the key of an accepted one.
FreshIdDroppedForKey ==
    \E r \in runs : \E i, j \in 1..Len(presented[r]) :
        /\ i < j
        /\ presented[r][i].cls = "new"
        /\ presented[r][j].cls = "duplicate"
        /\ presented[r][i].card.job_id = J1
        /\ presented[r][j].card.job_id = J2
        /\ TitleCompany(presented[r][i].card) = TitleCompany(presented[r][j].card)

\* The job ids and the title/company keys of the records classified new.
NewIds(r) ==
    {presented[r][i].card.job_id :
        i \in {k \in 1..Len(presented[r]) :
                  presented[r][k].cls = "new" /\ Truthy(presented[r][k].card.job_id)}}

NewKeys(r) ==
    {TitleCompany(presented[r][i].card) :
        i \in {k \in 1..Len(presented[r]) : presented[r][k].cls = "new"}}

\* The candidate at position j has the job id or the title/company key of
\* a candidate accepted before it.
RepeatsAccepted(r, j) ==
    \E i \in 1..(j - 1) :
        /\ Accepted(r, i)
        /\ \/ TitleCompany(presented[r][i].card) = TitleCompany(presented[r][j].card)
           \/ /\ Truthy(presented[r][j].card.job_id)
              /\ presented[r][i].card.job_id = presented[r][j].card.job_id

\* C20: the tracking sets hold exactly the job ids and the title/company
\* keys of the accepted candidates: they are the ids and keys of the
\* records classified new, and a candidate is classified duplicate only for
\* an id or key that an accepted candidate registered.
TrackingSetsHoldAccepted ==
    \A r \in runs :
        /\ job_ids[r] = NewIds(r)
        /\ seen_title_company_pairs[r] = NewKeys(r)
        /\ \A j \in 1..Len(presented[r]) :
               presented[r][j].cls = "duplicate" => RepeatsAccepted(r, j)

(***************************************************************************)
(* Properties of the work setting, the salary and the date columns.        *)
(***************************************************************************)
\* The work setting that the rule order gives: explicit remote, explicit
\* hybrid, remote in the location, in-person.
ResolvedByRuleOrder(work_setting, location) ==
    IF work_setting # Null /\ Contains(Lower(work_setting), Str_remote) THEN Str_remote
    ELSE IF work_setting # Null /\ Contains(Lower(work_setting), Str_hybrid) THEN Str_hybrid
    ELSE IF location # Null /\ Contains(Lower(location), Str_remote) THEN Str_remote
    ELSE Str_in_person

\* C21: the work setting of a cleaned row is the one the rule order gives,
\* first match winning: explicit remote, else explicit hybrid (also with
\* remote in the location), else remote in the location, else in-person.
WorkSettingRuleOrder ==
    (location_column /\ clean_status = "cleaned") =>
        \A i \in 1..Len(clean_output) :
            clean_output[i].work_setting =
                ResolvedByRuleOrder(clean_input[i].work_setting, clean_input[i].location)

\* C22: a location text that is already "City, ST" or "City, ST ZIP", with
\* any two capital letters as state code, is parsed into that city, state
\* and zip, and its canonical location is the text itself.
CityStateZipKept ==
    (location_column /\ clean_status = "cleaned") =>
        \A i \in 1..Len(clean_output) :
            \A st \in {Str_TX, Str_IN}, z \in {Null, Zip_46402, Zip_46402_1234} :
                clean_input[i].location = CityStateZipText(Str_Gary, st, z) =>
                    /\ clean_location(clean_input[i].location) = clean_input[i].location
                    /\ clean_output[i].city = Str_Gary
                    /\ clean_output[i].state = st
                    /\ clean_output[i].zip = z

\* The yearly factor of a period.
YearlyFactor(period) ==
    IF period = <<"h","o","u","r","l","y">> THEN 2080
    ELSE IF period = <<"w","e","e","k","l","y">> THEN 52
    ELSE IF period = <<"m","o","n","t","h","l","y">> THEN 12
    ELSE 1

\* C23: in every cleaned row the yearly bounds are there exactly when
\* salary_min is, and are then salary_min and salary_max times the factor of
\* the parsed period (hourly 2080, weekly 52, monthly 12, yearly 1);
\* "$15 an hour" gives 31200 for both yearly bounds and the midpoint.
YearlyNormalization ==
    clean_status = "cleaned" =>
        \A i \in 1..Len(clean_output) :
            LET row == clean_output[i]
            IN  /\ row.salary_min = NoNumber =>
                       /\ row.salary_min_yearly = NoNumber
                       /\ row.salary_max_yearly = NoNumber
                /\ row.salary_min # NoNumber =>
                       /\ row.salary_period \in
                              {<<"h","o","u","r","l","y">>, <<"w","e","e","k","l","y">>,
                               <<"m","o","n","t","h","l","y">>, <<"y","e","a","r","l","y">>}
                       /\ row.salary_min_yearly = row.salary_min * YearlyFactor(row.salary_period)
                       /\ row.salary_max_yearly = row.salary_max * YearlyFactor(row.salary_period)
                /\ clean_input[i].salary = Salary_15_an_hour =>
                       /\ row.salary_min_yearly = 3120000
                       /\ row.salary_max_yearly = 3120000
                       /\ row.salary_midpoint_yearly = 3120000

\* A cleaned DataFrame with an hourly and a monthly salary.
HourlyAndMonthlyNormalized ==
    /\ clean_status = "cleaned"
    /\ Len(clean_output) = 2
    /\ clean_input[1].salary = Salary_15_an_hour
    /\ clean_output[1].salary_min_yearly = 3120000
    /\ clean_input[2].salary = Salary_3_000_a_month
    /\ clean_output[2].salary_min = 300000
    /\ clean_output[2].salary_max_yearly = 3600000

\* The date a text names when it is in an accepted format, else None.
ExpectedDate(text) ==
    IF \E e \in AcceptedDateTexts : e.text = text
    THEN (CHOOSE e \in AcceptedDateTexts : e.text = text).date
    ELSE Null

\* C24: each date parser returns, for a text in an accepted format (ISO
\* timestamp with or without Z or offset, YYYY-MM-DD, MM/DD/YYYY, DD-MM-YYYY,
\* YYYY/MM/DD, "Mon DD, YYYY", "Month DD, YYYY"), the date the text names, and
\* None for every other text.
AcceptedFormatsParsed ==
    clean_status \in {"parse_date", "_validate_date_field"}
        => \A i \in 1..Len(clean_input) :
               clean_output[i] = ExpectedDate(clean_input[i])

\* parse_date alone does so.
ParseDateParsesAcceptedFormats ==
    clean_status = "parse_date"
        => \A i \in 1..Len(clean_input) :
               clean_output[i] = ExpectedDate(clean_input[i])

\* _validate_date_field was given a "Mon DD, YYYY" text.
MonthNameDateValidated ==
    /\ clean_status = "_validate_date_field"
    /\ \E i \in 1..Len(clean_input) : clean_input[i] = Date_Jan_05_2024

\* The URLs whose while loop has ended.
UrlsProcessed ==
    {u \in 1..Len(scrape_log) : u < url_index \/ batch_pc \in {"for", "done"}}

\* Each URL is scraped at least once and at most max_retries + 1 times, and
\* no call follows one that returned a description.
AttemptsBounded ==
    /\ \A u \in 1..Len(scrape_log) :
          /\ Len(scrape_log[u]) <= max_retries + 1
          /\ \A k \in 1..(Len(scrape_log[u]) - 1) : scrape_log[u][k] = Null
    /\ \A u \in UrlsProcessed : Len(scrape_log[u]) >= 1

\* The batch ends only after every URL was processed, whatever its calls
\* returned.
EveryUrlProcessed ==
    batch_pc = "done" => UrlsProcessed = 1..Len(job_listings_map)

\* C25: every URL is scraped between once and max_retries + 1 times, the
\* calls for a URL stop at the first that returns a description, the batch
\* terminates, and it ends with every URL processed, also those after a URL
\* whose calls all failed.
BatchRetriesBoundedAndTerminates ==
    /\ [](AttemptsBounded /\ EveryUrlProcessed)
    /\ <>(batch_pc = "done")

\* A batch that ended with a URL whose calls all failed, max_retries + 1 of
\* them, followed by a URL scraped once with success.
FailedUrlThenScrapedUrl ==
    /\ batch_pc = "done"
    /\ max_retries = MaxRetries
    /\ Len(scrape_log) = 2
    /\ Len(scrape_log[1]) = max_retries + 1
    /\ \A k \in 1..Len(scrape_log[1]) : scrape_log[1][k] = Null
    /\ scrape_log[2] = <<Description_d>>
    /\ job_listings_map[1].description = Null
    /\ job_listings_map[2].description = Description_d
    /\ success_count = 1

\* C26: save_job_listings never raises, also when a job_id comes twice in
\* one call: it commits, the table keeps one row per job_id, and the count
\* it returns is the number of rows it added.
SaveCompletesOnRepeatedId ==
    save_status # "none" =>
        /\ save_status = "committed"
        /\ \A r1, r2 \in db_job_listings : r1.job_id = r2.job_id => r1 = r2
        /\ added_count =
               Cardinality({row.job_id : row \in db_job_listings} \ known_ids)

\* A call with the same job_id twice, not stored before, has ended.
SameFreshIdTwiceSaved ==
    /\ save_status # "none"
    /\ known_ids = {}
    /\ Len(job_dicts) = 2
    /\ job_dicts[1].job_id = J1 /\ job_dicts[2].job_id = J1
    /\ save_log[1].success /\ save_log[2].success

\* C27: the job_descriptions row stored with a job carries the job_id of
\* its job_listings row, so every stored description joins to a stored
\* listing.
DescriptionCarriesStoredId ==
    save_status = "committed" =>
        \A d \in db_job_descriptions :
            \E row \in db_job_listings : row.job_id = d.job_id

\* A job whose id is trimmed by the validation was stored with its
\* description.
TrimmedIdStoredWithDescription ==
    /\ save_status = "committed"
    /\ \E i \in Inserted :
          /\ job_dicts[i].job_id # InsertedId(i)
          /\ job_dicts[i].description = Description_d

\* C28: when a with statement on setup_browser has been left, by return or
\* by an exception, every driver created so far was quit exactly once, and
\* its body was entered at most once.
EveryDriverQuitOnce ==
    /\ body_entries <= 1
    /\ browser_pc \in {"exited", "suspended"} =>
           \A d \in 1..drivers_created : quit_calls[d] = 1

\* The body raised WebDriverException after the first driver was yielded,
\* and the with statement has been left.
BodyRaisedAfterFirstYield ==
    /\ browser_pc = "suspended"
    /\ body_entries = 1
    /\ drivers_created = 2
    /\ quit_calls = <<0, 0>>

\* The flag is never reset.
StopFlagMonotone == SHOULD_EXIT => SHOULD_EXIT'

\* A step in which a run passes one of its exit checks: it starts a page,
\* begins the extraction of a card, or decides to navigate.
PassesExitCheck(r) ==
    \/ pc[r] = "check_page" /\ pc'[r] = "find_cards"
    \/ pc[r] = "check_card" /\ pc'[r] = "extract"
    \/ pc[r] = "page_end" /\ pc'[r] = "navigate"

\* C29 as stated: the flag is never reset, and once it is set no run starts
\* a page, begins the extraction of a further card or calls
\* navigate_to_next_page.
StopFlagHaltsAtOnce ==
    [][/\ StopFlagMonotone
       /\ SHOULD_EXIT => \A r \in runs :
              /\ ~(pc[r] = "check_page" /\ pc'[r] = "find_cards")
              /\ ~(pc[r] = "check_card" /\ pc'[r] = "extract")
              /\ navigations'[r] = navigations[r]]_vars

\* C29, amended: the flag is never reset, and once it is set no run passes
\* an exit check; only a step whose check came before the flag was set is
\* still carried out.
StopFlagHaltsAtNextCheck ==
    [][/\ StopFlagMonotone
       /\ SHOULD_EXIT => \A r \in runs : ~PassesExitCheck(r)]_vars

\* The flag was set while a run had pages left, and the run stopped for it
\* with the listings it had.
StoppedByFlagWithPagesLeft ==
    /\ SHOULD_EXIT
    /\ pc[1] = "done"
    /\ end_reason[1] = "stop"
    /\ current_page[1] < max_pages[1]
    /\ Len(result[1]) >= 1

\* C30: a candidate is classified duplicate only of a candidate presented
\* before it that has its job_id or its (title, company) pair: candidates
\* with different pairs and no common job_id are never duplicates of each
\* other, whatever characters the titles and companies contain.
CompositeKeyInjective ==
    \A r \in runs : \A j \in 1..Len(presented[r]) :
        presented[r][j].cls = "duplicate" =>
            \E i \in 1..(j - 1) :
                /\ presented[r][i].card.extracted
                /\ \/ SamePair(r, i, j)
                   \/ /\ Truthy(presented[r][j].card.job_id)
                      /\ presented[r][i].card.job_id = presented[r][j].card.job_id

\* Title 'a_b' at company 'c' was presented after title 'a' at company
\* 'b_c', neither with a job_id.
JoinCharacterInTitleAndCompany ==
    \E r \in runs : \E i, j \in 1..Len(presented[r]) :
        /\ i < j
        /\ presented[r][i].card = JobData(Null, Title_a, Company_b_c)
        /\ presented[r][j].card = JobData(Null, Title_a_b, Company_c)
        /\ presented[r][i].cls = "new"

====
